---- MODULE Spec2Model ----
(***************************************************************************)
(* Numeric gadgets of bellpepper-core (gadgets/num.rs): AllocatedNum and   *)
(* Num over a prime field, building rank-1 constraints in a test           *)
(* constraint system that records assignments and constraints.             *)
(***************************************************************************)
EXTENDS Integers, Sequences, FiniteSets, TLC

VARIABLES char, cs, nums, bools, call, ret, hist

vars == <<char, cs, nums, bools, call, ret, hist>>

(***************************************************************************)
(* Bounds of the model.                                                    *)
(***************************************************************************)
\* Numbers allocated before an arithmetic / selection gadget is called.
MaxNums == 2
\* Inputs and selector bits handed to mux_tree.
MaxInputs == 4
MaxSel == 2
\* Bits of a field element's representation beyond NUM_BITS.
ReprSlack == 1

\* Operations in a chain of Num operations, the first one included.
MaxChain == 3

\* Gadget calls made one after the other on one constraint system.
MaxCalls == 2

\* Sample characteristics (odd primes) standing for the scalar field.
Characteristics == {3, 5, 7, 11}
AllocCharacteristics == {3, 5}
BitsCharacteristics == {3, 5, 7, 11, 13, 17, 19, 23, 29, 31}
SeqCharacteristics == {3}
NumCharacteristics == {3, 5}
MuxCharacteristics == {3, 5}

(***************************************************************************)
(* Field element (ff::PrimeField) over the characteristic char.            *)
(***************************************************************************)
Field == 0 .. (char - 1)

None == <<>>
Some(v) == <<v>>
Unwrap(o) == o[1]

FAdd(x, y) == (x + y) % char
FSub(x, y) == (x - y + char) % char
FNeg(x) == (char - x) % char
FMul(x, y) == (x * y) % char
FSquare(x) == (x * x) % char
FDouble(x) == (x + x) % char
FInvert(x) == IF x = 0 THEN None ELSE Some(CHOOSE y \in Field : (x * y) % char = 1)

RECURSIVE BitLen(_)
BitLen(n) == IF n = 0 THEN 0 ELSE 1 + BitLen(n \div 2)

RECURSIVE Pow2(_)
Pow2(n) == IF n = 0 THEN 1 ELSE 2 * Pow2(n - 1)

\* Scalar::NUM_BITS and the width of Scalar::to_le_bits().
NUM_BITS == BitLen(char)
ReprLen == NUM_BITS + ReprSlack

\* to_le_bits of an integer representative: position i holds bit i-1.
le_bits(n) == [i \in 1 .. ReprLen |-> ((n \div Pow2(i - 1)) % 2) = 1]
to_le_bits(x) == le_bits(x)
char_le_bits == le_bits(char)

\* Sequence reversal (Iterator::rev).
Rev(s) == [i \in 1 .. Len(s) |-> s[Len(s) + 1 - i]]

(***************************************************************************)
(* Variables and linear combinations.                                      *)
(***************************************************************************)
Aux(i) == <<"Aux", i>>
Input(i) == <<"Input", i>>
\* CS::one(): the constant-one input variable.
OneVar == Input(0)

\* LinearCombination::zero()
LcZero == [v \in {} |-> 0]

\* lc + (coeff, var): coefficients of a repeated variable merge by addition.
LcAddTerm(lc, coeff, var) ==
    [v \in (DOMAIN lc) \cup {var} |->
        FAdd(IF v \in DOMAIN lc THEN lc[v] ELSE 0, IF v = var THEN coeff ELSE 0)]

\* lc + (coeff, &other)
RECURSIVE LcAddLcOver(_, _, _, _)
LcAddLcOver(lc, coeff, other, S) ==
    IF S = {} THEN lc
    ELSE LET v == CHOOSE x \in S : TRUE
         IN LcAddLcOver(LcAddTerm(lc, FMul(coeff, other[v]), v), coeff, other, S \ {v})
LcAddLc(lc, coeff, other) == LcAddLcOver(lc, coeff, other, DOMAIN other)

\* lc + var and lc - var
LcPlus(lc, var) == LcAddTerm(lc, 1 % char, var)
LcMinus(lc, var) == LcAddTerm(lc, FNeg(1), var)

(***************************************************************************)
(* Test constraint system: assignments and an append-only constraint list. *)
(***************************************************************************)
\* TestConstraintSystem::new(): producers are evaluated, assignments kept.
CsNew == [inputs |-> <<1>>, aux |-> <<>>, cons |-> <<>>, evaluates |-> TRUE]
\* A system that only builds structure (a key-generation pass): it never
\* invokes a value producer and keeps no assignment.
CsStructureOnly == [inputs |-> <<None>>, aux |-> <<>>, cons |-> <<>>, evaluates |-> FALSE]

ProdOk(v) == [ok |-> TRUE, val |-> v, err |-> "Ok"]
ProdErr(e) == [ok |-> FALSE, val |-> 0, err |-> e]
\* Option::ok_or(SynthesisError::AssignmentMissing) on one or two hints.
OkOr1(x) == x # None
OkOr2(x, y) == x # None /\ y # None

\* cs.alloc(|| name, f): the producer f is evaluated; on success the value
\* is stored as the assignment of a fresh auxiliary variable. A structure-only
\* system allocates the variable without invoking f.
CsAlloc(c, f) ==
    IF ~c.evaluates
    THEN [ok |-> TRUE, cs |-> [c EXCEPT !.aux = Append(@, None)],
          var |-> Aux(Len(c.aux) + 1), value |-> None, err |-> "Ok"]
    ELSE IF f.ok
    THEN [ok |-> TRUE, cs |-> [c EXCEPT !.aux = Append(@, f.val)],
          var |-> Aux(Len(c.aux) + 1), value |-> Some(f.val), err |-> "Ok"]
    ELSE [ok |-> FALSE, cs |-> c, var |-> OneVar, value |-> None, err |-> f.err]

\* cs.alloc_input(|| name, f)
CsAllocInput(c, f) ==
    IF ~c.evaluates
    THEN [ok |-> TRUE, cs |-> [c EXCEPT !.inputs = Append(@, None)],
          var |-> Input(Len(c.inputs)), value |-> None, err |-> "Ok"]
    ELSE IF f.ok
    THEN [ok |-> TRUE, cs |-> [c EXCEPT !.inputs = Append(@, f.val)],
          var |-> Input(Len(c.inputs)), value |-> Some(f.val), err |-> "Ok"]
    ELSE [ok |-> FALSE, cs |-> c, var |-> OneVar, value |-> None, err |-> f.err]

Name(label, idx) == [label |-> label, idx |-> idx]

\* cs.enforce(|| name, a, b, c)
CsEnforce(c, name, la, lb, lc) ==
    [c EXCEPT !.cons = Append(@, [name |-> name, a |-> la, b |-> lb, c |-> lc])]

Value(c, v) == IF v[1] = "Input" THEN c.inputs[v[2] + 1] ELSE c.aux[v[2]]

RECURSIVE EvalOver(_, _, _)
EvalOver(lc, c, S) ==
    IF S = {} THEN 0
    ELSE LET v == CHOOSE x \in S : TRUE
         IN FAdd(FMul(lc[v], Value(c, v)), EvalOver(lc, c, S \ {v}))
\* LinearCombination evaluated at the current assignment.
Eval(lc, c) == EvalOver(lc, c, DOMAIN lc)

ConsHolds(con, c) == FMul(Eval(con.a, c), Eval(con.b, c)) = Eval(con.c, c)

\* TestConstraintSystem::is_satisfied / which_is_unsatisfied
is_satisfied(c) == \A i \in 1 .. Len(c.cons) : ConsHolds(c.cons[i], c)
which_is_unsatisfied(c) ==
    IF is_satisfied(c) THEN None
    ELSE LET i == CHOOSE j \in 1 .. Len(c.cons) :
                    /\ ~ConsHolds(c.cons[j], c)
                    /\ \A k \in 1 .. (j - 1) : ConsHolds(c.cons[k], c)
         IN Some(c.cons[i].name)

\* TestConstraintSystem::set on an auxiliary variable
CsSet(c, i, v) == [c EXCEPT !.aux[i] = v]

(***************************************************************************)
(* Results of gadget calls.                                                *)
(***************************************************************************)
Ok(c, out) == [status |-> "Ok", cs |-> c, out |-> out]
Err(e, c) == [status |-> e, cs |-> c, out |-> <<>>]

AllocatedNumOf(value, variable) == [value |-> value, variable |-> variable]

(***************************************************************************)
(* AllocatedNum: allocation and arithmetic.                                *)
(***************************************************************************)
alloc(c, f) ==
    LET al == CsAlloc(c, f)
    IN IF al.ok THEN Ok(al.cs, AllocatedNumOf(al.value, al.var)) ELSE Err(al.err, al.cs)

alloc_input(c, f) ==
    LET al == CsAllocInput(c, f)
    IN IF al.ok THEN Ok(al.cs, AllocatedNumOf(al.value, al.var)) ELSE Err(al.err, al.cs)

\* Variant of alloc_maybe_input that reads the flag the other way round.
alloc_maybe_input_flipped(c, is_input, f) ==
    IF is_input THEN alloc(c, f) ELSE alloc_input(c, f)

alloc_maybe_input(c, is_input, f) ==
    IF is_input THEN alloc_input(c, f) ELSE alloc(c, f)

add(c, self, other) ==
    LET al == CsAlloc(c, IF OkOr2(self.value, other.value)
                         THEN ProdOk(FAdd(Unwrap(self.value), Unwrap(other.value)))
                         ELSE ProdErr("AssignmentMissing"))
    IN IF ~al.ok THEN Err(al.err, al.cs)
       ELSE Ok(CsEnforce(al.cs, Name("addition constraint", 0),
                         LcPlus(LcPlus(LcZero, self.variable), other.variable),
                         LcPlus(LcZero, OneVar),
                         LcPlus(LcZero, al.var)),
               AllocatedNumOf(al.value, al.var))

sub(c, self, other) ==
    LET al == CsAlloc(c, IF OkOr2(self.value, other.value)
                         THEN ProdOk(FSub(Unwrap(self.value), Unwrap(other.value)))
                         ELSE ProdErr("AssignmentMissing"))
    IN IF ~al.ok THEN Err(al.err, al.cs)
       ELSE Ok(CsEnforce(al.cs, Name("subtraction constraint", 0),
                         LcMinus(LcPlus(LcZero, self.variable), other.variable),
                         LcPlus(LcZero, OneVar),
                         LcPlus(LcZero, al.var)),
               AllocatedNumOf(al.value, al.var))

neg(c, self) ==
    LET al == CsAlloc(c, IF OkOr1(self.value)
                         THEN ProdOk(FNeg(Unwrap(self.value)))
                         ELSE ProdErr("AssignmentMissing"))
    IN IF ~al.ok THEN Err(al.err, al.cs)
       ELSE Ok(CsEnforce(al.cs, Name("negation constraint", 0),
                         LcZero,
                         LcZero,
                         LcPlus(LcPlus(LcZero, self.variable), al.var)),
               AllocatedNumOf(al.value, al.var))

\* Variant of mul that allocates the product and registers no constraint.
mul_unconstrained(c, self, other) ==
    LET al == CsAlloc(c, IF OkOr2(self.value, other.value)
                         THEN ProdOk(FMul(Unwrap(self.value), Unwrap(other.value)))
                         ELSE ProdErr("AssignmentMissing"))
    IN IF ~al.ok THEN Err(al.err, al.cs)
       ELSE Ok(al.cs, AllocatedNumOf(al.value, al.var))

mul(c, self, other) ==
    LET al == CsAlloc(c, IF OkOr2(self.value, other.value)
                         THEN ProdOk(FMul(Unwrap(self.value), Unwrap(other.value)))
                         ELSE ProdErr("AssignmentMissing"))
    IN IF ~al.ok THEN Err(al.err, al.cs)
       ELSE Ok(CsEnforce(al.cs, Name("multiplication constraint", 0),
                         LcPlus(LcZero, self.variable),
                         LcPlus(LcZero, other.variable),
                         LcPlus(LcZero, al.var)),
               AllocatedNumOf(al.value, al.var))

\* Variant of div whose constraint reads var * self = other.
div_operands_swapped(c, self, other) ==
    LET al == CsAlloc(c, IF ~OkOr2(self.value, other.value)
                         THEN ProdErr("AssignmentMissing")
                         ELSE IF FInvert(Unwrap(other.value)) = None
                         THEN ProdErr("Panic")
                         ELSE ProdOk(FMul(Unwrap(self.value),
                                          Unwrap(FInvert(Unwrap(other.value))))))
    IN IF ~al.ok THEN Err(al.err, al.cs)
       ELSE Ok(CsEnforce(al.cs, Name("division constraint", 0),
                         LcPlus(LcZero, al.var),
                         LcPlus(LcZero, self.variable),
                         LcPlus(LcZero, other.variable)),
               AllocatedNumOf(al.value, al.var))

\* Variant of div whose producer reports a zero divisor as DivisionByZero.
div_typed_error(c, self, other) ==
    LET al == CsAlloc(c, IF ~OkOr2(self.value, other.value)
                         THEN ProdErr("AssignmentMissing")
                         ELSE IF FInvert(Unwrap(other.value)) = None
                         THEN ProdErr("DivisionByZero")
                         ELSE ProdOk(FMul(Unwrap(self.value),
                                          Unwrap(FInvert(Unwrap(other.value))))))
    IN IF ~al.ok THEN Err(al.err, al.cs)
       ELSE Ok(CsEnforce(al.cs, Name("division constraint", 0),
                         LcPlus(LcZero, al.var),
                         LcPlus(LcZero, other.variable),
                         LcPlus(LcZero, self.variable)),
               AllocatedNumOf(al.value, al.var))

\* The producer asserts that the divisor's inverse exists.
div(c, self, other) ==
    LET al == CsAlloc(c, IF ~OkOr2(self.value, other.value)
                         THEN ProdErr("AssignmentMissing")
                         ELSE IF FInvert(Unwrap(other.value)) = None
                         THEN ProdErr("Panic")
                         ELSE ProdOk(FMul(Unwrap(self.value),
                                          Unwrap(FInvert(Unwrap(other.value))))))
    IN IF ~al.ok THEN Err(al.err, al.cs)
       ELSE Ok(CsEnforce(al.cs, Name("division constraint", 0),
                         LcPlus(LcZero, al.var),
                         LcPlus(LcZero, other.variable),
                         LcPlus(LcZero, self.variable)),
               AllocatedNumOf(al.value, al.var))

square(c, self) ==
    LET al == CsAlloc(c, IF OkOr1(self.value)
                         THEN ProdOk(FSquare(Unwrap(self.value)))
                         ELSE ProdErr("AssignmentMissing"))
    IN IF ~al.ok THEN Err(al.err, al.cs)
       ELSE Ok(CsEnforce(al.cs, Name("squaring constraint", 0),
                         LcPlus(LcZero, self.variable),
                         LcPlus(LcZero, self.variable),
                         LcPlus(LcZero, al.var)),
               AllocatedNumOf(al.value, al.var))

(***************************************************************************)
(* AllocatedBit and Boolean (gadgets/boolean.rs).                          *)
(***************************************************************************)
AllocatedBitOf(value, variable) == [value |-> value, variable |-> variable]

BitProducer(value) ==
    IF value = None THEN ProdErr("AssignmentMissing")
    ELSE ProdOk(IF Unwrap(value) THEN 1 ELSE 0)

\* AllocatedBit::alloc: a fresh variable a with (1 - a) * a = 0.
AllocatedBit_alloc(c, label, idx, value) ==
    LET al == CsAlloc(c, BitProducer(value))
    IN IF ~al.ok THEN Err(al.err, al.cs)
       ELSE Ok(CsEnforce(al.cs, Name(label, idx),
                         LcMinus(LcPlus(LcZero, OneVar), al.var),
                         LcPlus(LcZero, al.var),
                         LcZero),
               AllocatedBitOf(value, al.var))

\* AllocatedBit::alloc_conditionally: (1 - must_be_false - a) * a = 0; the
\* hint has to be false already when must_be_false is true.
AllocatedBit_alloc_conditionally(c, label, idx, value, must_be_false) ==
    IF value = Some(TRUE) /\ must_be_false.value = Some(TRUE)
    THEN Err("UnderlyingAllocationFailure", c)
    ELSE LET al == CsAlloc(c, BitProducer(value))
         IN IF ~al.ok THEN Err(al.err, al.cs)
            ELSE Ok(CsEnforce(al.cs, Name(label, idx),
                              LcMinus(LcMinus(LcPlus(LcZero, OneVar),
                                              must_be_false.variable), al.var),
                              LcPlus(LcZero, al.var),
                              LcZero),
                    AllocatedBitOf(value, al.var))

\* AllocatedBit::and: a fresh variable r with a * b = r.
AllocatedBit_and(c, idx, a, b) ==
    LET al == CsAlloc(c, IF OkOr2(a.value, b.value)
                         THEN BitProducer(Some(Unwrap(a.value) /\ Unwrap(b.value)))
                         ELSE ProdErr("AssignmentMissing"))
    IN IF ~al.ok THEN Err(al.err, al.cs)
       ELSE Ok(CsEnforce(al.cs, Name("and constraint", idx),
                         LcPlus(LcZero, a.variable),
                         LcPlus(LcZero, b.variable),
                         LcPlus(LcZero, al.var)),
               AllocatedBitOf(IF al.value = None THEN None
                              ELSE Some(Unwrap(al.value) = 1), al.var))

NoBit == AllocatedBitOf(None, OneVar)
BooleanConstant(b) == [kind |-> "Constant", bit |-> NoBit, c |-> b]
BooleanIs(bit) == [kind |-> "Is", bit |-> bit, c |-> FALSE]
BooleanNot(bit) == [kind |-> "Not", bit |-> bit, c |-> FALSE]

\* Boolean::get_value
BooleanValue(b) ==
    IF b.kind = "Constant" THEN Some(b.c)
    ELSE IF b.kind = "Is" THEN b.bit.value
    ELSE IF b.bit.value = None THEN None ELSE Some(~Unwrap(b.bit.value))

\* Boolean::lc(one, coeff)
BooleanLc(b, one, coeff) ==
    IF b.kind = "Constant"
    THEN (IF b.c THEN LcAddTerm(LcZero, coeff, one) ELSE LcZero)
    ELSE IF b.kind = "Is" THEN LcAddTerm(LcZero, coeff, b.bit.variable)
    ELSE LcAddTerm(LcAddTerm(LcZero, coeff, one), FNeg(coeff), b.bit.variable)

(***************************************************************************)
(* AllocatedNum: nonzero assertion, zero test, equality.                   *)
(***************************************************************************)
\* Variant of assert_nonzero that takes 0 as the inverse of a zero hint.
assert_nonzero_unchecked(c, self) ==
    LET al == CsAlloc(c, IF ~OkOr1(self.value) THEN ProdErr("AssignmentMissing")
                         ELSE IF Unwrap(self.value) = 0 THEN ProdOk(0)
                         ELSE ProdOk(Unwrap(FInvert(Unwrap(self.value)))))
    IN IF ~al.ok THEN Err(al.err, al.cs)
       ELSE Ok(CsEnforce(al.cs, Name("nonzero assertion constraint", 0),
                         LcPlus(LcZero, self.variable),
                         LcPlus(LcZero, al.var),
                         LcPlus(LcZero, OneVar)),
               <<>>)

assert_nonzero(c, self) ==
    LET al == CsAlloc(c, IF ~OkOr1(self.value) THEN ProdErr("AssignmentMissing")
                         ELSE IF Unwrap(self.value) = 0 THEN ProdErr("DivisionByZero")
                         ELSE ProdOk(Unwrap(FInvert(Unwrap(self.value)))))
    IN IF ~al.ok THEN Err(al.err, al.cs)
       ELSE Ok(CsEnforce(al.cs, Name("nonzero assertion constraint", 0),
                         LcPlus(LcZero, self.variable),
                         LcPlus(LcZero, al.var),
                         LcPlus(LcZero, OneVar)),
               <<>>)

\* Variant of is_zero that omits the constraint out * input = 0.
is_zero_one_constraint(c, self) ==
    IF ~OkOr1(self.value) THEN Err("AssignmentMissing", c)
    ELSE
    LET out == AllocatedBit_alloc(c, "out bit/boolean constraint", 0,
                                  Some(Unwrap(self.value) = 0))
    IN IF out.status # "Ok" THEN Err(out.status, out.cs)
       ELSE
       LET multiplier == alloc(out.cs,
                               IF Unwrap(self.value) = 0 THEN ProdOk(0)
                               ELSE ProdOk(Unwrap(FInvert(Unwrap(self.value)))))
       IN IF multiplier.status # "Ok" THEN Err(multiplier.status, multiplier.cs)
          ELSE Ok(CsEnforce(multiplier.cs, Name("multiplier * input === 1 - out", 0),
                            LcPlus(LcZero, multiplier.out.variable),
                            LcPlus(LcZero, self.variable),
                            LcMinus(LcPlus(LcZero, OneVar), out.out.variable)),
                  BooleanIs(out.out))

\* Variant of is_zero that reads the hint only inside the value producers.
is_zero_lazy_hint(c, self) ==
    LET out == AllocatedBit_alloc(c, "out bit/boolean constraint", 0,
                                  IF self.value = None THEN None
                                  ELSE Some(Unwrap(self.value) = 0))
    IN IF out.status # "Ok" THEN Err(out.status, out.cs)
       ELSE
       LET multiplier == alloc(out.cs,
                               IF ~OkOr1(self.value) THEN ProdErr("AssignmentMissing")
                               ELSE IF Unwrap(self.value) = 0 THEN ProdOk(0)
                               ELSE ProdOk(Unwrap(FInvert(Unwrap(self.value)))))
       IN IF multiplier.status # "Ok" THEN Err(multiplier.status, multiplier.cs)
          ELSE
          LET c1 == CsEnforce(multiplier.cs, Name("multiplier * input === 1 - out", 0),
                              LcPlus(LcZero, multiplier.out.variable),
                              LcPlus(LcZero, self.variable),
                              LcMinus(LcPlus(LcZero, OneVar), out.out.variable))
              c2 == CsEnforce(c1, Name("out * input === 0", 0),
                              LcPlus(LcZero, out.out.variable),
                              LcPlus(LcZero, self.variable),
                              LcZero)
          IN Ok(c2, BooleanIs(out.out))

is_zero(c, self) ==
    IF ~OkOr1(self.value) THEN Err("AssignmentMissing", c)
    ELSE
    LET out == AllocatedBit_alloc(c, "out bit/boolean constraint", 0,
                                  Some(Unwrap(self.value) = 0))
    IN IF out.status # "Ok" THEN Err(out.status, out.cs)
       ELSE
       LET multiplier == alloc(out.cs,
                               IF ~OkOr1(self.value) THEN ProdErr("AssignmentMissing")
                               ELSE IF Unwrap(self.value) = 0 THEN ProdOk(0)
                               ELSE ProdOk(Unwrap(FInvert(Unwrap(self.value)))))
       IN IF multiplier.status # "Ok" THEN Err(multiplier.status, multiplier.cs)
          ELSE
          LET c1 == CsEnforce(multiplier.cs, Name("multiplier * input === 1 - out", 0),
                              LcPlus(LcZero, multiplier.out.variable),
                              LcPlus(LcZero, self.variable),
                              LcMinus(LcPlus(LcZero, OneVar), out.out.variable))
              c2 == CsEnforce(c1, Name("out * input === 0", 0),
                              LcPlus(LcZero, out.out.variable),
                              LcPlus(LcZero, self.variable),
                              LcZero)
          IN Ok(c2, BooleanIs(out.out))

\* Variant of is_equal that tests self, not the difference, for zero.
is_equal_tests_self(c, self, other) ==
    LET diff == sub(c, self, other)
    IN IF diff.status # "Ok" THEN Err(diff.status, diff.cs)
       ELSE is_zero(diff.cs, self)

is_equal(c, self, other) ==
    LET diff == sub(c, self, other)
    IN IF diff.status # "Ok" THEN Err(diff.status, diff.cs)
       ELSE is_zero(diff.cs, diff.out)

(***************************************************************************)
(* AllocatedNum: conditional selection, reversal and the mux tree.         *)
(***************************************************************************)
SelectProducer(condition, ifTrue, ifFalse) ==
    IF BooleanValue(condition) = None THEN ProdErr("AssignmentMissing")
    ELSE IF Unwrap(BooleanValue(condition))
    THEN (IF OkOr1(ifTrue.value) THEN ProdOk(Unwrap(ifTrue.value))
          ELSE ProdErr("AssignmentMissing"))
    ELSE (IF OkOr1(ifFalse.value) THEN ProdOk(Unwrap(ifFalse.value))
          ELSE ProdErr("AssignmentMissing"))

\* Variant of conditionally_select whose constraint reads
\* condition * (a - b) = b - c.
conditionally_select_from_b(c, a, b, condition) ==
    LET r == alloc(c, SelectProducer(condition, b, a))
    IN IF r.status # "Ok" THEN Err(r.status, r.cs)
       ELSE Ok(CsEnforce(r.cs, Name("condition * (a - b) === a - c", 0),
                         BooleanLc(condition, OneVar, 1 % char),
                         LcMinus(LcPlus(LcZero, a.variable), b.variable),
                         LcMinus(LcPlus(LcZero, b.variable), r.out.variable)),
               r.out)

conditionally_select(c, a, b, condition) ==
    LET r == alloc(c, SelectProducer(condition, b, a))
    IN IF r.status # "Ok" THEN Err(r.status, r.cs)
       ELSE Ok(CsEnforce(r.cs, Name("condition * (a - b) === a - c", 0),
                         BooleanLc(condition, OneVar, 1 % char),
                         LcMinus(LcPlus(LcZero, a.variable), b.variable),
                         LcMinus(LcPlus(LcZero, a.variable), r.out.variable)),
               r.out)

\* Variant of conditionally_reverse whose second constraint repeats the
\* first factor a - b.
conditionally_reverse_same_factor(c, a, b, condition) ==
    LET rc == alloc(c, SelectProducer(condition, b, a))
    IN IF rc.status # "Ok" THEN Err(rc.status, rc.cs)
       ELSE
       LET c1 == CsEnforce(rc.cs, Name("first conditional reversal", 0),
                           LcMinus(LcPlus(LcZero, a.variable), b.variable),
                           BooleanLc(condition, OneVar, 1 % char),
                           LcMinus(LcPlus(LcZero, a.variable), rc.out.variable))
           rd == alloc(c1, SelectProducer(condition, a, b))
       IN IF rd.status # "Ok" THEN Err(rd.status, rd.cs)
          ELSE Ok(CsEnforce(rd.cs, Name("second conditional reversal", 0),
                            LcMinus(LcPlus(LcZero, a.variable), b.variable),
                            BooleanLc(condition, OneVar, 1 % char),
                            LcMinus(LcPlus(LcZero, b.variable), rd.out.variable)),
                  <<rc.out, rd.out>>)

\* Variant of conditionally_reverse that allocates both outputs before it
\* registers the two constraints.
conditionally_reverse_allocs_first(c, a, b, condition) ==
    LET rc == alloc(c, SelectProducer(condition, b, a))
    IN IF rc.status # "Ok" THEN Err(rc.status, rc.cs)
       ELSE
       LET rd == alloc(rc.cs, SelectProducer(condition, a, b))
       IN IF rd.status # "Ok" THEN Err(rd.status, rd.cs)
          ELSE
          LET c1 == CsEnforce(rd.cs, Name("first conditional reversal", 0),
                              LcMinus(LcPlus(LcZero, a.variable), b.variable),
                              BooleanLc(condition, OneVar, 1 % char),
                              LcMinus(LcPlus(LcZero, a.variable), rc.out.variable))
          IN Ok(CsEnforce(c1, Name("second conditional reversal", 0),
                          LcMinus(LcPlus(LcZero, b.variable), a.variable),
                          BooleanLc(condition, OneVar, 1 % char),
                          LcMinus(LcPlus(LcZero, b.variable), rd.out.variable)),
                <<rc.out, rd.out>>)

conditionally_reverse(c, a, b, condition) ==
    LET rc == alloc(c, SelectProducer(condition, b, a))
    IN IF rc.status # "Ok" THEN Err(rc.status, rc.cs)
       ELSE
       LET c1 == CsEnforce(rc.cs, Name("first conditional reversal", 0),
                           LcMinus(LcPlus(LcZero, a.variable), b.variable),
                           BooleanLc(condition, OneVar, 1 % char),
                           LcMinus(LcPlus(LcZero, a.variable), rc.out.variable))
           rd == alloc(c1, SelectProducer(condition, a, b))
       IN IF rd.status # "Ok" THEN Err(rd.status, rd.cs)
          ELSE Ok(CsEnforce(rd.cs, Name("second conditional reversal", 0),
                            LcMinus(LcPlus(LcZero, b.variable), a.variable),
                            BooleanLc(condition, OneVar, 1 % char),
                            LcMinus(LcPlus(LcZero, b.variable), rd.out.variable)),
                  <<rc.out, rd.out>>)

\* Variant of mux_tree that joins the halves the other way round.
RECURSIVE mux_tree_halves_swapped(_, _, _)
mux_tree_halves_swapped(c, select_bits, inputs) ==
    IF select_bits # <<>>
    THEN IF Len(inputs) % 2 # 0 THEN Err("Unsatisfiable", c)
         ELSE
         LET half == Len(inputs) \div 2
             left == mux_tree_halves_swapped(c, Tail(select_bits), SubSeq(inputs, 1, half))
         IN IF left.status # "Ok" THEN Err(left.status, left.cs)
            ELSE
            LET right == mux_tree_halves_swapped(left.cs, Tail(select_bits),
                                                 SubSeq(inputs, half + 1, Len(inputs)))
            IN IF right.status # "Ok" THEN Err(right.status, right.cs)
               ELSE conditionally_select(right.cs, right.out, left.out, Head(select_bits))
    ELSE IF Len(inputs) # 1 THEN Err("Unsatisfiable", c)
         ELSE Ok(c, inputs[1])

\* Variant of mux_tree whose base case accepts any non-empty list.
RECURSIVE mux_tree_lenient_base(_, _, _)
mux_tree_lenient_base(c, select_bits, inputs) ==
    IF select_bits # <<>>
    THEN IF Len(inputs) % 2 # 0 THEN Err("Unsatisfiable", c)
         ELSE
         LET half == Len(inputs) \div 2
             left == mux_tree_lenient_base(c, Tail(select_bits), SubSeq(inputs, 1, half))
         IN IF left.status # "Ok" THEN Err(left.status, left.cs)
            ELSE
            LET right == mux_tree_lenient_base(left.cs, Tail(select_bits),
                                               SubSeq(inputs, half + 1, Len(inputs)))
            IN IF right.status # "Ok" THEN Err(right.status, right.cs)
               ELSE conditionally_select(right.cs, left.out, right.out, Head(select_bits))
    ELSE IF Len(inputs) = 0 THEN Err("Unsatisfiable", c)
         ELSE Ok(c, inputs[1])

RECURSIVE mux_tree(_, _, _)
mux_tree(c, select_bits, inputs) ==
    IF select_bits # <<>>
    THEN IF Len(inputs) % 2 # 0 THEN Err("Unsatisfiable", c)
         ELSE
         LET half == Len(inputs) \div 2
             left == mux_tree(c, Tail(select_bits), SubSeq(inputs, 1, half))
         IN IF left.status # "Ok" THEN Err(left.status, left.cs)
            ELSE
            LET right == mux_tree(left.cs, Tail(select_bits),
                                  SubSeq(inputs, half + 1, Len(inputs)))
            IN IF right.status # "Ok" THEN Err(right.status, right.cs)
               ELSE conditionally_select(right.cs, left.out, right.out, Head(select_bits))
    ELSE IF Len(inputs) # 1 THEN Err("Unsatisfiable", c)
         ELSE Ok(c, inputs[1])

(***************************************************************************)
(* Bit decomposition: to_bits_le and to_bits_le_strict.                    *)
(***************************************************************************)
\* boolean::field_into_allocated_bits_le: the hint's bits below the leading
\* zero positions of the characteristic, allocated in little-endian order.
RECURSIVE alloc_bits_le(_, _, _, _)
alloc_bits_le(c, values, i, acc) ==
    IF i > Len(values) THEN Ok(c, acc)
    ELSE LET bit == AllocatedBit_alloc(c, "bit/boolean constraint", i - 1, values[i])
         IN IF bit.status # "Ok" THEN Err(bit.status, bit.cs)
            ELSE alloc_bits_le(bit.cs, values, i + 1, Append(acc, bit.out))

field_into_allocated_bits_le(c, value) ==
    LET kept == {i \in 1 .. ReprLen : \E j \in i .. ReprLen : char_le_bits[j]}
        values == [i \in 1 .. Cardinality(kept) |->
                      IF value = None THEN None ELSE Some(to_le_bits(Unwrap(value))[i])]
    IN IF value # None /\ Cardinality(kept) # NUM_BITS THEN Err("Panic", c)
       ELSE alloc_bits_le(c, values, 1, <<>>)

\* Variant of the packing loop that never doubles the coefficient.
RECURSIVE pack_bits_constant_coeff(_, _, _, _)
pack_bits_constant_coeff(bits, i, coeff, lc) ==
    IF i > Len(bits) THEN lc
    ELSE pack_bits_constant_coeff(bits, i + 1, coeff, LcAddTerm(lc, coeff, bits[i].variable))

\* for bit in bits { lc = lc + (coeff, bit); coeff = coeff.double(); }
RECURSIVE pack_bits(_, _, _, _)
pack_bits(bits, i, coeff, lc) ==
    IF i > Len(bits) THEN lc
    ELSE pack_bits(bits, i + 1, FDouble(coeff), LcAddTerm(lc, coeff, bits[i].variable))

BooleansFrom(bits) == [i \in 1 .. Len(bits) |-> BooleanIs(bits[i])]

\* Variant of to_bits_le that allocates the bits and registers no unpacking
\* constraint.
to_bits_le_unpacked(c, self) ==
    LET bits == field_into_allocated_bits_le(c, self.value)
    IN IF bits.status # "Ok" THEN Err(bits.status, bits.cs)
       ELSE Ok(bits.cs, BooleansFrom(bits.out))

to_bits_le(c, self) ==
    LET bits == field_into_allocated_bits_le(c, self.value)
    IN IF bits.status # "Ok" THEN Err(bits.status, bits.cs)
       ELSE LET lc == LcMinus(pack_bits(bits.out, 1, 1 % char, LcZero), self.variable)
            IN Ok(CsEnforce(bits.cs, Name("unpacking constraint", 0), LcZero, LcZero, lc),
                  BooleansFrom(bits.out))

\* The k-ary AND of a run: the first bit, AND-ed with each further one.
RECURSIVE kary_and_from(_, _, _, _)
kary_and_from(c, v, i, cur) ==
    IF i > Len(v) THEN Ok(c, cur)
    ELSE LET r == AllocatedBit_and(c, i - 1, cur, v[i])
         IN IF r.status # "Ok" THEN Err(r.status, r.cs)
            ELSE kary_and_from(r.cs, v, i + 1, r.out)

kary_and(c, v) ==
    IF v = <<>> THEN Err("Panic", c)
    ELSE kary_and_from(c, v, 2, v[1])

\* State of the forward pass over the bits of -1, most significant first.
StrictStart(c) ==
    [status |-> "Ok", cs |-> c, result |-> <<>>, last_run |-> None,
     current_run |-> <<>>, found_one |-> FALSE, i |-> 0]

\* Fold the pending run of ones (and the previous flag) into last_run.
strict_folded(st, r) ==
    IF r.status # "Ok" THEN [st EXCEPT !.status = r.status, !.cs = r.cs]
    ELSE [st EXCEPT !.cs = r.cs, !.last_run = Some(r.out), !.current_run = <<>>]

\* Variant of the fold that leaves the previous flag out of the AND.
strict_fold_forgets_flag(st) ==
    IF st.current_run = <<>> THEN st
    ELSE strict_folded(st, kary_and(st.cs, st.current_run))

strict_fold(st) ==
    IF st.current_run = <<>> THEN st
    ELSE strict_folded(st, kary_and(st.cs, IF st.last_run # None
                                           THEN Append(st.current_run, Unwrap(st.last_run))
                                           ELSE st.current_run))

\* Variant of the bound-bit-1 branch that leaves the bit out of the run.
strict_one_outside_run(st, bit) ==
    IF bit.status # "Ok"
    THEN [st EXCEPT !.status = bit.status, !.cs = bit.cs, !.found_one = TRUE]
    ELSE [st EXCEPT !.cs = bit.cs, !.found_one = TRUE,
                    !.result = Append(@, bit.out),
                    !.i = @ + 1]

\* A bound bit 1: the allocated bit joins the current run and the result.
strict_one(st, bit) ==
    IF bit.status # "Ok"
    THEN [st EXCEPT !.status = bit.status, !.cs = bit.cs, !.found_one = TRUE]
    ELSE [st EXCEPT !.cs = bit.cs, !.found_one = TRUE,
                    !.current_run = Append(@, bit.out),
                    !.result = Append(@, bit.out),
                    !.i = @ + 1]

\* A bound bit 0: the conditionally allocated bit joins the result.
strict_zero_bit(f, bit) ==
    IF bit.status # "Ok" THEN [f EXCEPT !.status = bit.status, !.cs = bit.cs]
    ELSE [f EXCEPT !.cs = bit.cs, !.result = Append(@, bit.out), !.i = @ + 1]

\* Variant of the bound-bit-0 branch that allocates a free boolean.
strict_zero_unconditional(f, a_bit) ==
    IF f.status # "Ok" THEN f
    ELSE IF f.last_run = None THEN [f EXCEPT !.status = "Panic"]
    ELSE strict_zero_bit(f, AllocatedBit_alloc(f.cs, "bit/boolean constraint", f.i, a_bit))

strict_zero(f, a_bit) ==
    IF f.status # "Ok" THEN f
    ELSE IF f.last_run = None THEN [f EXCEPT !.status = "Panic"]
    ELSE strict_zero_bit(f, AllocatedBit_alloc_conditionally(
                                f.cs, "bit/boolean constraint", f.i, a_bit,
                                Unwrap(f.last_run)))

\* One iteration of the loop for bound bit b and hint bit a_bit.
strict_step(st, b, a_bit) ==
    IF st.status # "Ok" THEN st
    ELSE IF ~(st.found_one \/ b)
    THEN (IF a_bit = Some(TRUE) THEN [st EXCEPT !.status = "Panic"] ELSE st)
    ELSE IF b
    THEN strict_one(st, AllocatedBit_alloc(st.cs, "bit/boolean constraint", st.i, a_bit))
    ELSE strict_zero(strict_fold(st), a_bit)

RECURSIVE strict_loop(_, _, _, _)
strict_loop(st, b, a, pos) ==
    IF pos > Len(b) THEN st
    ELSE strict_loop(strict_step(st, b[pos], IF a = None THEN None ELSE Some(Unwrap(a)[pos])),
                     b, a, pos + 1)

\* After the loop: the run must be empty; pack the bits and return them
\* in little-endian order.
strict_finish(self, st) ==
    IF st.status # "Ok" THEN Err(st.status, st.cs)
    ELSE IF Len(st.current_run) # 0 THEN Err("Panic", st.cs)
    ELSE Ok(CsEnforce(st.cs, Name("unpacking constraint", 0), LcZero, LcZero,
                      LcMinus(pack_bits(Rev(st.result), 1, 1 % char, LcZero), self.variable)),
            Rev(BooleansFrom(st.result)))

to_bits_le_strict(c, self) ==
    strict_finish(self,
        strict_loop(StrictStart(c),
                    Rev(to_le_bits(FNeg(1 % char))),
                    IF self.value = None THEN None
                    ELSE Some(Rev(to_le_bits(Unwrap(self.value)))),
                    1))

(***************************************************************************)
(* Num: a linear combination with the value it evaluates to.               *)
(***************************************************************************)
NumOf(value, lc) == [value |-> value, lc |-> lc]

\* impl From<AllocatedNum> for Num
Num_from(num) == NumOf(num.value, LcAddTerm(LcZero, 1 % char, num.variable))

\* Num::zero()
Num_zero == NumOf(Some(0), LcZero)

\* Num::lc(coeff)
Num_lc(self, coeff) == LcAddLc(LcZero, coeff, self.lc)

\* Num::add_bool_with_coeff(one, bit, coeff)
Num_add_bool_with_coeff(self, one, bit, coeff) ==
    NumOf(IF self.value # None /\ BooleanValue(bit) # None
          THEN (IF Unwrap(BooleanValue(bit))
                THEN Some(FAdd(Unwrap(self.value), coeff))
                ELSE Some(Unwrap(self.value)))
          ELSE None,
          LcAddLc(self.lc, 1 % char, BooleanLc(bit, one, coeff)))

\* Variant of Num::add that keeps its own hint when the other one is absent.
Num_add_keeps_hint(self, other) ==
    NumOf(IF self.value # None /\ other.value # None
          THEN Some(FAdd(Unwrap(self.value), Unwrap(other.value)))
          ELSE self.value,
          LcAddLc(self.lc, 1 % char, other.lc))

\* Num::add(other)
Num_add(self, other) ==
    NumOf(IF self.value # None /\ other.value # None
          THEN Some(FAdd(Unwrap(self.value), Unwrap(other.value)))
          ELSE None,
          LcAddLc(self.lc, 1 % char, other.lc))

\* Variant of Num::scale that rescales the coefficients only.
Num_scale_lc_only(self, scalar) ==
    NumOf(self.value, [v \in DOMAIN self.lc |-> FMul(self.lc[v], scalar)])

\* Num::scale(scalar)
Num_scale(self, scalar) ==
    NumOf(IF self.value # None THEN Some(FMul(Unwrap(self.value), scalar)) ELSE None,
          [v \in DOMAIN self.lc |-> FMul(self.lc[v], scalar)])

(***************************************************************************)
(* The circuit under construction: a test allocates numbers, calls one     *)
(* gadget, then inspects the system, overwriting an assignment and         *)
(* restoring it.                                                           *)
(***************************************************************************)
NoCall == [op |-> "none", a |-> <<>>, b |-> <<>>, cond |-> <<>>]
NoRet == [status |-> "none", out |-> <<>>]

Init ==
    /\ char \in Characteristics
    /\ cs = CsNew
    /\ nums = <<>>
    /\ bools = <<>>
    /\ call = NoCall
    /\ ret = NoRet
    /\ hist = <<>>

\* AllocatedNum::alloc(cs, || Ok(v))
Alloc ==
    /\ call.op = "none"
    /\ Len(nums) < MaxNums
    /\ bools = <<>>
    /\ \E v \in Field :
          LET r == alloc(cs, ProdOk(v))
          IN /\ cs' = r.cs
             /\ nums' = Append(nums, r.out)
    /\ UNCHANGED <<char, bools, call, ret, hist>>

Finish(name, a, b, cond, r) ==
    /\ cs' = r.cs
    /\ call' = [op |-> name, a |-> a, b |-> b, cond |-> cond]
    /\ ret' = [status |-> r.status, out |-> r.out]
    /\ UNCHANGED <<char, nums, bools, hist>>

Unary == call.op = "none" /\ Len(nums) = 1 /\ bools = <<>>
Binary == call.op = "none" /\ Len(nums) = 2 /\ bools = <<>>

Add == Binary /\ \E i, j \in 1 .. 2 : Finish("add", nums[i], nums[j], <<>>, add(cs, nums[i], nums[j]))
Sub == Binary /\ \E i, j \in 1 .. 2 : Finish("sub", nums[i], nums[j], <<>>, sub(cs, nums[i], nums[j]))
Mul == Binary /\ \E i, j \in 1 .. 2 : Finish("mul", nums[i], nums[j], <<>>, mul(cs, nums[i], nums[j]))
Div == Binary /\ \E i, j \in 1 .. 2 : Finish("div", nums[i], nums[j], <<>>, div(cs, nums[i], nums[j]))
Neg == Unary /\ Finish("neg", nums[1], nums[1], <<>>, neg(cs, nums[1]))
Square == Unary /\ Finish("square", nums[1], nums[1], <<>>, square(cs, nums[1]))
AssertNonzero ==
    Unary /\ Finish("assert_nonzero", nums[1], nums[1], <<>>, assert_nonzero(cs, nums[1]))
IsZero == Unary /\ Finish("is_zero", nums[1], nums[1], <<>>, is_zero(cs, nums[1]))
IsEqual ==
    Binary /\ \E i, j \in 1 .. 2 :
        Finish("is_equal", nums[i], nums[j], <<>>, is_equal(cs, nums[i], nums[j]))
ToBitsLe == Unary /\ Finish("to_bits_le", nums[1], nums[1], <<>>, to_bits_le(cs, nums[1]))
ToBitsLeStrict ==
    Unary /\ Finish("to_bits_le_strict", nums[1], nums[1], <<>>, to_bits_le_strict(cs, nums[1]))

\* A condition: Boolean::constant(v), or an allocated bit, plain or negated.
MakeBoolean(kind, v) ==
    IF kind = "Constant"
    THEN /\ bools' = Append(bools, BooleanConstant(v))
         /\ cs' = cs
    ELSE LET r == AllocatedBit_alloc(cs, "boolean constraint", 0, Some(v))
         IN /\ cs' = r.cs
            /\ bools' = Append(bools, IF kind = "Is" THEN BooleanIs(r.out)
                                                     ELSE BooleanNot(r.out))

AllocCondition ==
    /\ call.op = "none"
    /\ Len(nums) = 2
    /\ bools = <<>>
    /\ \E kind \in {"Constant", "Is", "Not"}, v \in BOOLEAN : MakeBoolean(kind, v)
    /\ UNCHANGED <<char, nums, call, ret, hist>>

Conditional == call.op = "none" /\ Len(nums) = 2 /\ Len(bools) = 1

ConditionallySelect ==
    Conditional /\ Finish("conditionally_select", nums[1], nums[2], bools[1],
                          conditionally_select(cs, nums[1], nums[2], bools[1]))
ConditionallyReverse ==
    Conditional /\ Finish("conditionally_reverse", nums[1], nums[2], bools[1],
                          conditionally_reverse(cs, nums[1], nums[2], bools[1]))

\* cs.set(name, value) on one auxiliary variable of a finished circuit
Set ==
    /\ call.op # "none"
    /\ ret.status = "Ok"
    /\ hist = <<>>
    /\ \E i \in 1 .. Len(cs.aux), v \in Field :
          /\ v # cs.aux[i]
          /\ cs' = CsSet(cs, i, v)
          /\ hist' = <<[var |-> i, old |-> cs.aux[i], new |-> v]>>
    /\ UNCHANGED <<char, nums, bools, call, ret>>

\* cs.set(name, cur): the overwritten assignment is put back
Restore ==
    /\ hist # <<>>
    /\ cs' = CsSet(cs, hist[1].var, hist[1].old)
    /\ hist' = <<>>
    /\ UNCHANGED <<char, nums, bools, call, ret>>

Next ==
    \/ Alloc
    \/ Add \/ Sub \/ Neg \/ Mul \/ Div \/ Square
    \/ AssertNonzero \/ IsZero \/ IsEqual
    \/ AllocCondition \/ ConditionallySelect \/ ConditionallyReverse
    \/ ToBitsLe \/ ToBitsLeStrict
    \/ Set \/ Restore

Spec == Init /\ [][Next]_vars

(***************************************************************************)
(* The mux tree circuit: inputs and selector bits of any count, then one   *)
(* call of mux_tree.                                                       *)
(***************************************************************************)
InitMux ==
    /\ char \in MuxCharacteristics
    /\ cs = CsNew
    /\ nums = <<>>
    /\ bools = <<>>
    /\ call = NoCall
    /\ ret = NoRet
    /\ hist = <<>>

AllocInput ==
    /\ call.op = "none"
    /\ Len(nums) < MaxInputs
    /\ bools = <<>>
    /\ \E v \in Field :
          LET r == alloc(cs, ProdOk(v))
          IN /\ cs' = r.cs
             /\ nums' = Append(nums, r.out)
    /\ UNCHANGED <<char, bools, call, ret, hist>>

AllocSelector ==
    /\ call.op = "none"
    /\ Len(bools) < MaxSel
    /\ \E kind \in {"Constant", "Is", "Not"}, v \in BOOLEAN : MakeBoolean(kind, v)
    /\ UNCHANGED <<char, nums, call, ret, hist>>

MuxTree ==
    /\ call.op = "none"
    /\ Finish("mux_tree", nums, <<>>, bools, mux_tree(cs, bools, nums))

NextMux == AllocInput \/ AllocSelector \/ MuxTree

SpecMux == InitMux /\ [][NextMux]_vars

(***************************************************************************)
(* A chain of Num operations: it starts from zero() or from an allocated   *)
(* number and accumulates numbers and booleans, in a system that evaluates *)
(* producers or one that only builds structure. Here ret.out is the Num    *)
(* built so far, call.a the Num before the last operation, and hist the    *)
(* log of the operations applied.                                          *)
(***************************************************************************)
InitNum ==
    /\ char \in NumCharacteristics
    /\ (cs = CsNew \/ cs = CsStructureOnly)
    /\ nums = <<>>
    /\ bools = <<>>
    /\ call = NoCall
    /\ ret = NoRet
    /\ hist = <<>>

\* The Num n results from operation name on operand other with scalar s.
Chained(name, other, s, hint, n) ==
    /\ call' = [op |-> name, a |-> ret.out, b |-> other, cond |-> s]
    /\ ret' = [status |-> "Ok", out |-> n]
    /\ hist' = Append(hist, [op |-> name, hint |-> hint, scalar |-> s])
    /\ UNCHANGED char

NumZero ==
    /\ call.op = "none"
    /\ Chained("zero", <<>>, 0, Some(0), Num_zero)
    /\ UNCHANGED <<cs, nums, bools>>

\* Num::from(AllocatedNum::alloc(cs, || Ok(v)))
NumFrom ==
    /\ call.op = "none"
    /\ \E v \in Field :
          LET r == alloc(cs, ProdOk(v))
          IN /\ cs' = r.cs
             /\ nums' = Append(nums, r.out)
             /\ Chained("from", r.out, 0, r.out.value, Num_from(r.out))
    /\ UNCHANGED bools

InChain == call.op # "none" /\ Len(hist) < MaxChain

\* acc.add(&other): other is zero(), a Num without a hint and without terms,
\* a number allocated earlier, or the accumulator itself.
NumAdd ==
    /\ InChain
    /\ \/ \E other \in {Num_zero, NumOf(None, LcZero)} \cup {Num_from(nums[i]) : i \in DOMAIN nums} :
             Chained("add", other, 0, other.value, Num_add(ret.out, other))
       \/ Chained("add_self", ret.out, 0, ret.out.value, Num_add(ret.out, ret.out))
    /\ UNCHANGED <<cs, nums, bools>>

\* acc.add(&Num::from(AllocatedNum::alloc(cs, || Ok(v))))
NumAddAllocated ==
    /\ InChain
    /\ \E v \in Field :
          LET r == alloc(cs, ProdOk(v))
          IN /\ cs' = r.cs
             /\ nums' = Append(nums, r.out)
             /\ Chained("add", Num_from(r.out), 0, r.out.value,
                        Num_add(ret.out, Num_from(r.out)))
    /\ UNCHANGED bools

\* acc.add_bool_with_coeff(CS::one(), &bit, coeff) on a constant
NumAddConstant ==
    /\ InChain
    /\ \E v \in BOOLEAN, coeff \in Field :
          Chained("add_bool", BooleanConstant(v), coeff, Some(v),
                  Num_add_bool_with_coeff(ret.out, OneVar, BooleanConstant(v), coeff))
    /\ UNCHANGED <<cs, nums, bools>>

\* ... and on a freshly allocated bit, plain or negated
NumAddBool ==
    /\ InChain
    /\ \E value \in {None, Some(TRUE), Some(FALSE)}, negated \in BOOLEAN, coeff \in Field :
          LET r == AllocatedBit_alloc(cs, "boolean constraint", 0, value)
              bit == IF negated THEN BooleanNot(r.out) ELSE BooleanIs(r.out)
          IN /\ r.status = "Ok"
             /\ cs' = r.cs
             /\ bools' = Append(bools, bit)
             /\ Chained("add_bool", bit, coeff, BooleanValue(bit),
                        Num_add_bool_with_coeff(ret.out, OneVar, bit, coeff))
    /\ UNCHANGED nums

NumScale ==
    /\ InChain
    /\ \E scalar \in Field :
          Chained("scale", <<>>, scalar, None, Num_scale(ret.out, scalar))
    /\ UNCHANGED <<cs, nums, bools>>

NextNum ==
    \/ NumZero \/ NumFrom
    \/ NumAdd \/ NumAddAllocated \/ NumAddConstant \/ NumAddBool
    \/ NumScale

SpecNum == InitNum /\ [][NextNum]_vars

(***************************************************************************)
(* A circuit built by several gadget calls, in a system that evaluates     *)
(* producers or one that only builds structure, on numbers whose hint may  *)
(* be absent. Each call works on the two most recent numbers and appends   *)
(* the numbers and booleans it returns; hist logs every call with the      *)
(* system as it was before the call.                                       *)
(***************************************************************************)
InitSeq ==
    /\ char \in SeqCharacteristics
    /\ (cs = CsNew \/ cs = CsStructureOnly)
    /\ nums = <<>>
    /\ bools = <<>>
    /\ call = NoCall
    /\ ret = NoRet
    /\ hist = <<>>

\* AllocatedNum::alloc(cs, || Ok(v)) before the first gadget call
SeqAlloc ==
    /\ hist = <<>>
    /\ Len(nums) < MaxNums
    /\ \E v \in Field :
          LET r == alloc(cs, ProdOk(v))
          IN /\ cs' = r.cs
             /\ nums' = Append(nums, r.out)
    /\ UNCHANGED <<char, bools, call, ret, hist>>

\* An AllocatedNum read back (derive(Deserialize)) without its hint: the
\* variable is the one allocated, the value is None.
Deserialize ==
    /\ hist = <<>>
    /\ nums # <<>>
    /\ nums[Len(nums)].value # None
    /\ nums' = [nums EXCEPT ![Len(nums)].value = None]
    /\ UNCHANGED <<char, cs, bools, call, ret, hist>>

\* A gadget call returning r; outs and flags are the numbers and booleans
\* it hands back.
Called(name, a, b, cond, r, outs, flags) ==
    /\ cs' = r.cs
    /\ call' = [op |-> name, a |-> a, b |-> b, cond |-> cond]
    /\ ret' = [status |-> r.status, out |-> r.out]
    /\ nums' = nums \o outs
    /\ bools' = bools \o flags
    /\ hist' = Append(hist, [op |-> name, status |-> r.status, cs |-> cs])
    /\ UNCHANGED char

\* A panic ends the program; an error result does not.
CanCall == Len(nums) >= 2 /\ Len(hist) < MaxCalls /\ ret.status # "Panic"
Recent == {nums[Len(nums) - 1], nums[Len(nums)]}
\* The two most recent numbers as (self, other), in either order.
RecentPairs == {<<nums[Len(nums) - 1], nums[Len(nums)]>>,
                <<nums[Len(nums)], nums[Len(nums) - 1]>>}
NumOut(r) == IF r.status = "Ok" THEN <<r.out>> ELSE <<>>

Arith(name, c, x, y) ==
    IF name = "add" THEN add(c, x, y)
    ELSE IF name = "sub" THEN sub(c, x, y)
    ELSE IF name = "mul" THEN mul(c, x, y)
    ELSE IF name = "div" THEN div(c, x, y)
    ELSE IF name = "neg" THEN neg(c, x)
    ELSE square(c, x)

CallBinary ==
    /\ CanCall
    /\ \E name \in {"add", "sub", "mul", "div"}, p \in RecentPairs :
          Called(name, p[1], p[2], <<>>, Arith(name, cs, p[1], p[2]),
                 NumOut(Arith(name, cs, p[1], p[2])), <<>>)

CallUnary ==
    /\ CanCall
    /\ \E name \in {"neg", "square"}, x \in Recent :
          Called(name, x, x, <<>>, Arith(name, cs, x, x), NumOut(Arith(name, cs, x, x)), <<>>)

CallAssertNonzero ==
    /\ CanCall
    /\ \E x \in Recent :
          Called("assert_nonzero", x, x, <<>>, assert_nonzero(cs, x), <<>>, <<>>)

CallIsZero ==
    /\ CanCall
    /\ \E x \in Recent :
          Called("is_zero", x, x, <<>>, is_zero(cs, x), <<>>, NumOut(is_zero(cs, x)))

CallIsEqual ==
    /\ CanCall
    /\ \E p \in RecentPairs :
          Called("is_equal", p[1], p[2], <<>>, is_equal(cs, p[1], p[2]), <<>>,
                 NumOut(is_equal(cs, p[1], p[2])))

\* Conditions: a constant, or the boolean returned last.
Conditions ==
    {BooleanConstant(TRUE), BooleanConstant(FALSE)}
        \cup (IF bools = <<>> THEN {} ELSE {bools[Len(bools)]})

CallConditionallySelect ==
    /\ CanCall
    /\ \E cond \in Conditions :
          LET a == nums[Len(nums) - 1]
              b == nums[Len(nums)]
          IN Called("conditionally_select", a, b, cond,
                    conditionally_select(cs, a, b, cond),
                    NumOut(conditionally_select(cs, a, b, cond)), <<>>)

CallConditionallyReverse ==
    /\ CanCall
    /\ \E cond \in Conditions :
          LET a == nums[Len(nums) - 1]
              b == nums[Len(nums)]
              r == conditionally_reverse(cs, a, b, cond)
          IN Called("conditionally_reverse", a, b, cond, r,
                    IF r.status = "Ok" THEN r.out ELSE <<>>, <<>>)

NextSeq ==
    \/ SeqAlloc \/ Deserialize
    \/ CallBinary \/ CallUnary
    \/ CallAssertNonzero \/ CallIsZero \/ CallIsEqual
    \/ CallConditionallySelect \/ CallConditionallyReverse

SpecSeq == InitSeq /\ [][NextSeq]_vars

(***************************************************************************)
(* Allocation calls with producers that succeed or fail, in a system that  *)
(* evaluates producers or one that only builds structure; hist logs every  *)
(* call with the system as it was before the call.                         *)
(***************************************************************************)
InitAlloc ==
    /\ char \in AllocCharacteristics
    /\ (cs = CsNew \/ cs = CsStructureOnly)
    /\ nums = <<>>
    /\ bools = <<>>
    /\ call = NoCall
    /\ ret = NoRet
    /\ hist = <<>>

\* The value producers handed to an allocation: || Ok(v) and || Err(e).
Producers ==
    {ProdOk(v) : v \in Field} \cup {ProdErr(e) : e \in {"AssignmentMissing", "Unsatisfiable"}}

CallAlloc ==
    /\ Len(hist) < MaxCalls
    /\ \E f \in Producers :
          Called("alloc", f, <<>>, FALSE, alloc(cs, f), NumOut(alloc(cs, f)), <<>>)

CallAllocInput ==
    /\ Len(hist) < MaxCalls
    /\ \E f \in Producers :
          Called("alloc_input", f, <<>>, TRUE, alloc_input(cs, f),
                 NumOut(alloc_input(cs, f)), <<>>)

CallAllocMaybeInput ==
    /\ Len(hist) < MaxCalls
    /\ \E f \in Producers, is_input \in BOOLEAN :
          Called("alloc_maybe_input", f, <<>>, is_input, alloc_maybe_input(cs, is_input, f),
                 NumOut(alloc_maybe_input(cs, is_input, f)), <<>>)

NextAlloc == CallAlloc \/ CallAllocInput \/ CallAllocMaybeInput

SpecAlloc == InitAlloc /\ [][NextAlloc]_vars

(***************************************************************************)
(* Bit decompositions of one number over more characteristics, with the    *)
(* hint present or absent, in a system that evaluates producers or one     *)
(* that only builds structure; hist logs every call with the system as it  *)
(* was before the call.                                                    *)
(***************************************************************************)
InitBits ==
    /\ char \in BitsCharacteristics
    /\ (cs = CsNew \/ cs = CsStructureOnly)
    /\ nums = <<>>
    /\ bools = <<>>
    /\ call = NoCall
    /\ ret = NoRet
    /\ hist = <<>>

BitsAlloc ==
    /\ nums = <<>>
    /\ \E v \in Field :
          LET r == alloc(cs, ProdOk(v))
          IN /\ cs' = r.cs
             /\ nums' = Append(nums, r.out)
    /\ UNCHANGED <<char, bools, call, ret, hist>>

CanDecompose == nums # <<>> /\ Len(hist) < MaxCalls /\ ret.status # "Panic"

CallToBitsLe ==
    /\ CanDecompose
    /\ Called("to_bits_le", nums[1], nums[1], <<>>, to_bits_le(cs, nums[1]), <<>>, <<>>)

CallToBitsLeStrict ==
    /\ CanDecompose
    /\ Called("to_bits_le_strict", nums[1], nums[1], <<>>,
              to_bits_le_strict(cs, nums[1]), <<>>, <<>>)

NextBits == BitsAlloc \/ Deserialize \/ CallToBitsLe \/ CallToBitsLeStrict

SpecBits == InitBits /\ [][NextBits]_vars

(***************************************************************************)
(* Verification: satisfying assignments of a registered constraint set.    *)
(***************************************************************************)
ConsVars(con) == (DOMAIN con.a) \cup (DOMAIN con.b) \cup (DOMAIN con.c)
AuxOf(con) == {v[2] : v \in {w \in ConsVars(con) : w[1] = "Aux"}}
LastAux(con) == IF AuxOf(con) = {} THEN 0
                ELSE CHOOSE m \in AuxOf(con) : \A n \in AuxOf(con) : n <= m

\* The constraints whose last auxiliary variable is k hold in c.
HoldUpTo(c, k) ==
    \A i \in 1 .. Len(c.cons) :
        (LastAux(c.cons[i]) = k \/ (k = 1 /\ LastAux(c.cons[i]) = 0))
            => ConsHolds(c.cons[i], c)

\* All assignments of the auxiliary variables that satisfy every constraint
\* of c and agree with c outside the variables in free, which range over the
\* whole field.
RECURSIVE SolutionsFrom(_, _, _)
SolutionsFrom(c, free, k) ==
    IF k > Len(c.aux) THEN {c.aux}
    ELSE UNION { IF HoldUpTo(CsSet(c, k, v), k)
                 THEN SolutionsFrom(CsSet(c, k, v), free, k + 1)
                 ELSE {}
                 : v \in (IF k \in free THEN Field ELSE {c.aux[k]}) }
Solutions(c, free) == SolutionsFrom(c, free, 1)

\* An assignment of auxiliary variable i has been overwritten.
Tampered(i) == hist # <<>> /\ hist[1].var = i

Hint(n) == Unwrap(n.value)
Idx(n) == n.variable[2]
Bit01(b) == IF b THEN 1 ELSE 0

(***************************************************************************)
(* C1: arithmetic.                                                         *)
(***************************************************************************)
ArithOps == {"add", "sub", "neg", "mul", "square", "div"}

\* The field result of each operation, by integer arithmetic.
Expected(o, a, b) ==
    IF o = "add" THEN (a + b) % char
    ELSE IF o = "sub" THEN CHOOSE r \in Field : (r + b) % char = a
    ELSE IF o = "neg" THEN CHOOSE r \in Field : (r + a) % char = 0
    ELSE IF o = "mul" THEN (a * b) % char
    ELSE IF o = "square" THEN (a * a) % char
    ELSE CHOOSE r \in Field : (r * b) % char = a

C1_Case == call.op \in ArithOps /\ (call.op = "div" => Hint(call.b) # 0)

\* C1: add, sub, neg, mul, square and div (nonzero divisor) on allocated
\* numbers succeed, the returned hint is the field result, the system is
\* satisfied, and it is satisfied exactly when the output variable is
\* assigned that result.
C1_Arithmetic ==
    C1_Case =>
        LET e == Expected(call.op, Hint(call.a), Hint(call.b))
        IN /\ ret.status = "Ok"
           /\ ret.out.value = Some(e)
           /\ hist = <<>> =>
                 /\ is_satisfied(cs)
                 /\ \A v \in Field : is_satisfied(CsSet(cs, Idx(ret.out), v)) <=> (v = e)
           /\ Tampered(Idx(ret.out)) => ~is_satisfied(cs)

C1_Witness ==
    /\ call.op = "div" /\ ret.status = "Ok"
    /\ Hint(call.a) # Hint(call.b)
    /\ Tampered(Idx(ret.out))
    /\ ~is_satisfied(cs)

(***************************************************************************)
(* C2: is_zero.                                                            *)
(***************************************************************************)
\* is_zero allocates the output bit, then the multiplier.
IsZeroOut == Idx(ret.out.bit)
IsZeroMultiplier == Idx(ret.out.bit) + 1

\* C2: every satisfying assignment of is_zero's constraints has out = 1 when
\* the number is 0 and out = 0 otherwise, whatever the multiplier; the hints
\* satisfy the system, the returned value is (s = 0), and the flipped output
\* bit is rejected.
C2_IsZero ==
    call.op = "is_zero" =>
        LET s == Hint(call.a)
            z == Bit01(s = 0)
        IN /\ ret.status = "Ok"
           /\ BooleanValue(ret.out) = Some(s = 0)
           /\ hist = <<>> =>
                 /\ is_satisfied(cs)
                 /\ cs.aux[IsZeroOut] = z
                 /\ \A w \in Solutions(cs, {IsZeroOut, IsZeroMultiplier}) : w[IsZeroOut] = z
                 /\ \A m \in Field :
                       ~is_satisfied(CsSet(CsSet(cs, IsZeroMultiplier, m), IsZeroOut, 1 - z))
           /\ (Tampered(IsZeroOut) /\ hist[1].new = 1 - z) => ~is_satisfied(cs)

C2_Witness ==
    /\ call.op = "is_zero" /\ ret.status = "Ok"
    /\ Hint(call.a) # 0
    /\ Tampered(IsZeroOut) /\ hist[1].new = 1
    /\ ~is_satisfied(cs)

(***************************************************************************)
(* C3: is_equal.                                                           *)
(***************************************************************************)
ConsNames(c) == [i \in 1 .. Len(c.cons) |-> c.cons[i].name.label]

\* C3: is_equal on numbers with hints x and y subtracts and tests the
\* difference for zero: it returns (x = y), the system is satisfied, and
\* the flipped output bit is rejected.
C3_IsEqual ==
    call.op = "is_equal" =>
        LET x == Hint(call.a)
            y == Hint(call.b)
            z == Bit01(x = y)
            diff == Len(nums) + 1
        IN /\ ret.status = "Ok"
           /\ BooleanValue(ret.out) = Some(x = y)
           /\ ConsNames(cs) = <<"subtraction constraint", "out bit/boolean constraint",
                                "multiplier * input === 1 - out", "out * input === 0">>
           /\ IsZeroOut = diff + 1
           /\ hist = <<>> =>
                 /\ (cs.aux[diff] + y) % char = x
                 /\ cs.aux[IsZeroOut] = z
                 /\ is_satisfied(cs)
                 /\ ~is_satisfied(CsSet(cs, IsZeroOut, 1 - z))
           /\ (Tampered(IsZeroOut) /\ hist[1].new = 1 - z) => ~is_satisfied(cs)

C3_Witness ==
    /\ call.op = "is_equal" /\ ret.status = "Ok"
    /\ Hint(call.a) = Hint(call.b) /\ Hint(call.a) # 0
    /\ call.a.variable # call.b.variable
    /\ Tampered(IsZeroOut) /\ hist[1].new = 0
    /\ ~is_satisfied(cs)

(***************************************************************************)
(* C4: assert_nonzero.                                                     *)
(***************************************************************************)
\* The constraint self * inverse = 1, written out.
NonzeroShape(con, self, inv) ==
    /\ con.a = (self :> 1)
    /\ con.b = (inv :> 1)
    /\ con.c = (OneVar :> 1)

\* C4: assert_nonzero fails with DivisionByZero on a zero hint and registers
\* nothing; on a nonzero hint s it registers exactly self * inverse = 1 with
\* inverse hint s^-1, the system is satisfied, no other assignment of the
\* inverse satisfies it, and none does once self is assigned 0.
C4_AssertNonzero ==
    call.op = "assert_nonzero" =>
        LET s == Hint(call.a)
            inv == Len(nums) + 1
        IN IF s = 0
           THEN /\ ret.status = "DivisionByZero"
                /\ cs.cons = <<>>
                /\ Len(cs.aux) = Len(nums)
           ELSE /\ ret.status = "Ok"
                /\ Len(cs.cons) = 1
                /\ NonzeroShape(cs.cons[1], call.a.variable, Aux(inv))
                /\ Len(cs.aux) = inv
                /\ hist = <<>> =>
                      /\ (s * cs.aux[inv]) % char = 1
                      /\ is_satisfied(cs)
                      /\ \A v \in Field :
                            is_satisfied(CsSet(cs, inv, v)) <=> (v = cs.aux[inv])
                      /\ \A v \in Field :
                            ~is_satisfied(CsSet(CsSet(cs, Idx(call.a), 0), inv, v))
                /\ Tampered(inv) => which_is_unsatisfied(cs) =
                                        Some(Name("nonzero assertion constraint", 0))
                /\ (Tampered(Idx(call.a)) /\ hist[1].new = 0) => ~is_satisfied(cs)

C4_Witness ==
    /\ call.op = "assert_nonzero" /\ ret.status = "Ok"
    /\ Hint(call.a) = 3 % char
    /\ Tampered(Len(nums) + 1) /\ hist[1].new = 3 % char
    /\ ~is_satisfied(cs)

C4_WitnessZero ==
    call.op = "assert_nonzero" /\ ret.status = "DivisionByZero" /\ Hint(call.a) = 0

(***************************************************************************)
(* C5: conditionally_select.                                               *)
(***************************************************************************)
CondBit == Unwrap(BooleanValue(call.cond))

\* C5: conditionally_select returns a number whose hint is a when the
\* condition is false and b when it is true, the system is satisfied, and
\* the only assignment of the result variable that satisfies it is that
\* value.
C5_ConditionallySelect ==
    call.op = "conditionally_select" =>
        LET e == IF CondBit THEN Hint(call.b) ELSE Hint(call.a)
        IN /\ ret.status = "Ok"
           /\ ret.out.value = Some(e)
           /\ cs.cons[Len(cs.cons)].name.label = "condition * (a - b) === a - c"
           /\ hist = <<>> =>
                 /\ is_satisfied(cs)
                 /\ \A w \in Solutions(cs, {Idx(ret.out)}) : w[Idx(ret.out)] = e
                 /\ \A v \in Field : is_satisfied(CsSet(cs, Idx(ret.out), v)) <=> (v = e)
           /\ Tampered(Idx(ret.out)) => ~is_satisfied(cs)

C5_Witness ==
    /\ call.op = "conditionally_select" /\ ret.status = "Ok"
    /\ call.cond.kind = "Not" /\ CondBit
    /\ Hint(call.a) # Hint(call.b)
    /\ ret.out.value = call.b.value
    /\ hist = <<>> /\ is_satisfied(cs)

(***************************************************************************)
(* C6: conditionally_reverse.                                              *)
(***************************************************************************)
\* C6: conditionally_reverse returns (a, b) when the condition is false and
\* (b, a) when it is true, the system is satisfied, and every satisfying
\* assignment of the two output variables has exactly those values.
C6_ConditionallyReverse ==
    call.op = "conditionally_reverse" =>
        /\ ret.status = "Ok"
        /\ LET c == ret.out[1]
               d == ret.out[2]
               ec == IF CondBit THEN Hint(call.b) ELSE Hint(call.a)
               ed == IF CondBit THEN Hint(call.a) ELSE Hint(call.b)
           IN /\ c.value = Some(ec)
              /\ d.value = Some(ed)
              /\ c.variable # d.variable
              /\ hist = <<>> =>
                    /\ is_satisfied(cs)
                    /\ Solutions(cs, {Idx(c), Idx(d)}) # {}
                    /\ \A w \in Solutions(cs, {Idx(c), Idx(d)}) :
                          /\ w[Idx(c)] = ec /\ w[Idx(d)] = ed
                          /\ \/ (w[Idx(c)] = Hint(call.a) /\ w[Idx(d)] = Hint(call.b))
                             \/ (w[Idx(c)] = Hint(call.b) /\ w[Idx(d)] = Hint(call.a))
              /\ (Tampered(Idx(c)) \/ Tampered(Idx(d))) => ~is_satisfied(cs)

C6_Witness ==
    /\ call.op = "conditionally_reverse" /\ ret.status = "Ok"
    /\ CondBit /\ call.cond.kind = "Is"
    /\ Hint(call.a) # Hint(call.b)
    /\ ret.out[1].value = call.b.value /\ ret.out[2].value = call.a.value
    /\ Tampered(Idx(ret.out[2]))

(***************************************************************************)
(* C7, C8: mux_tree.                                                       *)
(***************************************************************************)
\* The integer whose binary digits are the selector bits, first bit highest.
RECURSIVE BigEndian(_)
BigEndian(bits) ==
    IF bits = <<>> THEN 0
    ELSE Bit01(Unwrap(BooleanValue(Head(bits)))) * Pow2(Len(bits) - 1) + BigEndian(Tail(bits))

\* Variables and constraints present before the call: one variable per
\* input, one variable and one constraint per allocated selector bit.
AllocatedSelectors == Cardinality({i \in DOMAIN bools : bools[i].kind # "Constant"})
AuxBefore == Len(nums) + AllocatedSelectors
ConsBefore == AllocatedSelectors
SelectConstraints ==
    Cardinality({i \in DOMAIN cs.cons :
                    cs.cons[i].name.label = "condition * (a - b) === a - c"})

MuxCall == call.op = "mux_tree"
MuxMatched == Len(call.a) = Pow2(Len(call.cond))

\* C7: on 2^k inputs and k selector bits mux_tree succeeds and returns a
\* number whose hint is inputs[index], index read from the bits with the
\* first bit highest, and whose variable takes that value in every
\* satisfying assignment of the new variables; it registers exactly
\* 2^k - 1 select constraints, and for k = 0 returns the input itself.
C7_MuxTree ==
    (MuxCall /\ MuxMatched) =>
        LET k == Len(call.cond)
            chosen == call.a[BigEndian(call.cond) + 1]
        IN /\ ret.status = "Ok"
           /\ ret.out.value = chosen.value
           /\ SelectConstraints = Pow2(k) - 1
           /\ Len(cs.cons) = ConsBefore + Pow2(k) - 1
           /\ Len(cs.aux) = AuxBefore + Pow2(k) - 1
           /\ (k = 0) => (ret.out = call.a[1])
           /\ is_satisfied(cs)
           /\ \A w \in Solutions(cs, (AuxBefore + 1) .. Len(cs.aux)) :
                 w[Idx(ret.out)] = w[Idx(chosen)] /\ w[Idx(chosen)] = Hint(chosen)

C7_Witness ==
    /\ MuxCall /\ ret.status = "Ok"
    /\ Len(call.a) = 4 /\ Len(call.cond) = 2
    /\ BigEndian(call.cond) = 2
    /\ call.cond[1].kind = "Is" /\ call.cond[2].kind = "Not"
    /\ \A i \in 1 .. 4 : i # 3 => call.a[i].value # call.a[3].value
    /\ ret.out.value = call.a[3].value

C7_WitnessBase ==
    MuxCall /\ ret.status = "Ok" /\ Len(call.cond) = 0 /\ cs.cons = <<>>

\* C8: on an input list whose length is not 2^k mux_tree fails with
\* Unsatisfiable, having allocated no variable and registered no constraint.
C8_MuxMismatch ==
    (MuxCall /\ ~MuxMatched) =>
        /\ ret.status = "Unsatisfiable"
        /\ Len(cs.aux) = AuxBefore
        /\ Len(cs.cons) = ConsBefore
        /\ SelectConstraints = 0

\* Even at the top level, odd one level down.
C8_Witness ==
    /\ MuxCall /\ Len(call.cond) = 2 /\ Len(call.a) = 2
    /\ ret.status = "Unsatisfiable"

\* Even at both levels of splitting, wrong at the base.
C8_WitnessBase ==
    /\ MuxCall /\ Len(call.cond) = 1 /\ Len(call.a) = 4
    /\ ret.status = "Unsatisfiable"

C8_WitnessEmpty ==
    MuxCall /\ Len(call.a) = 0 /\ Len(call.cond) = 1 /\ ret.status = "Unsatisfiable"

(***************************************************************************)
(* C9, C10: bit decomposition.                                             *)
(***************************************************************************)
BitsCall == call.op \in {"to_bits_le", "to_bits_le_strict"}

\* Bit i (from 0) of the integer n.
BitOf(n, i) == (n \div Pow2(i)) % 2

\* The integer encoded by little-endian 0/1 digits.
RECURSIVE Weighted(_, _)
Weighted(digits, i) ==
    IF i > Len(digits) THEN 0 ELSE digits[i] * Pow2(i - 1) + Weighted(digits, i + 1)

\* The variables of the returned bits, little-endian, and their assignment.
BitVars == [i \in 1 .. Len(ret.out) |-> Idx(ret.out[i].bit)]
Digits(w) == [i \in 1 .. Len(ret.out) |-> w[BitVars[i]]]

\* C9: to_bits_le and to_bits_le_strict succeed and leave the system
\* satisfied; the returned bits are the bits of the canonical value, which
\* has no bit beyond them, so their weighted sum is the value; a different
\* assignment of the number, or one flipped bit, is rejected.
C9_BitsRoundTrip ==
    BitsCall =>
        LET x == Hint(call.a)
        IN /\ ret.status = "Ok"
           /\ \A i \in 1 .. Len(ret.out) :
                 /\ ret.out[i].kind = "Is"
                 /\ BooleanValue(ret.out[i]) = Some(BitOf(x, i - 1) = 1)
           /\ \A i \in (Len(ret.out) + 1) .. ReprLen : BitOf(x, i - 1) = 0
           /\ hist = <<>> =>
                 /\ is_satisfied(cs)
                 /\ \A i \in 1 .. Len(ret.out) : cs.aux[BitVars[i]] = BitOf(x, i - 1)
                 /\ Weighted(Digits(cs.aux), 1) = x
                 /\ \A v \in Field \ {x} : ~is_satisfied(CsSet(cs, Idx(call.a), v))
                 /\ \A i \in 1 .. Len(ret.out) :
                       ~is_satisfied(CsSet(cs, BitVars[i], 1 - cs.aux[BitVars[i]]))
           /\ Tampered(Idx(call.a)) => ~is_satisfied(cs)
           /\ \A i \in 1 .. Len(ret.out) :
                 (Tampered(BitVars[i]) /\ hist[1].new = 1 - hist[1].old) => ~is_satisfied(cs)

C9_Witness ==
    /\ call.op = "to_bits_le" /\ ret.status = "Ok"
    /\ Hint(call.a) = char - 2
    /\ Tampered(BitVars[Len(ret.out)]) /\ hist[1].new = 1 - hist[1].old
    /\ ~is_satisfied(cs)

C9_WitnessStrict ==
    /\ call.op = "to_bits_le_strict" /\ ret.status = "Ok"
    /\ Hint(call.a) = char - 2
    /\ Tampered(Idx(call.a))
    /\ ~is_satisfied(cs)

\* a <= b in the lexicographic order of equally long digit sequences.
LexLeq(a, b) ==
    \/ a = b
    \/ \E i \in 1 .. Len(a) : a[i] < b[i] /\ \A j \in 1 .. (i - 1) : a[j] = b[j]

\* The bits of characteristic - 1 on as many positions as were returned.
BoundDigits == [i \in 1 .. Len(ret.out) |-> BitOf(char - 1, i - 1)]

LsbName == Name("bit/boolean constraint", NUM_BITS - 1)

\* C10: every assignment of the number, the bits and the AND flags that
\* satisfies the constraints of to_bits_le_strict has 0/1 bits which, most
\* significant first, are lexicographically at most the bits of
\* characteristic - 1: they encode an integer below the characteristic, the
\* canonical value of the number. For characteristic - 1 the hints satisfy
\* the system, and a least-significant bit of 1 violates that bit's
\* conditional boolean constraint.
C10_StrictCanonical ==
    call.op = "to_bits_le_strict" =>
        /\ ret.status = "Ok"
        /\ hist = <<>> =>
              /\ \A w \in Solutions(cs, 1 .. Len(cs.aux)) :
                    /\ \A i \in 1 .. Len(ret.out) : Digits(w)[i] \in {0, 1}
                    /\ LexLeq(Rev(Digits(w)), Rev(BoundDigits))
                    /\ Weighted(Digits(w), 1) < char
                    /\ Weighted(Digits(w), 1) = w[Idx(call.a)]
              /\ Cardinality(Solutions(cs, 2 .. Len(cs.aux))) = 1
              /\ Hint(call.a) = char - 1 =>
                    /\ is_satisfied(cs)
                    /\ cs.aux[BitVars[1]] = 0
                    /\ which_is_unsatisfied(CsSet(cs, BitVars[1], 1)) = Some(LsbName)
        /\ (Hint(call.a) = char - 1 /\ Tampered(BitVars[1]) /\ hist[1].new = 1)
              => which_is_unsatisfied(cs) = Some(LsbName)

C10_Witness ==
    /\ call.op = "to_bits_le_strict" /\ ret.status = "Ok"
    /\ char = 11
    /\ Hint(call.a) = char - 1
    /\ Tampered(BitVars[1]) /\ hist[1].new = 1
    /\ which_is_unsatisfied(cs) = Some(LsbName)

(***************************************************************************)
(* C11, C12: Num.                                                          *)
(***************************************************************************)
\* The terms contributed by a logged chain, each with the product of the
\* scalars applied after it: a number contributes its hint, a boolean its
\* coefficient when true and 0 when false, and adding the accumulator to
\* itself contributes every earlier term once more.
RECURSIVE Terms(_)
Terms(h) ==
    IF h = <<>> THEN <<>>
    ELSE LET prev == Terms(SubSeq(h, 1, Len(h) - 1))
             e == h[Len(h)]
         IN IF e.op = "scale"
            THEN [i \in DOMAIN prev |->
                     [hint |-> prev[i].hint, factor |-> (prev[i].factor * e.scalar) % char]]
            ELSE IF e.op = "add_self" THEN prev \o prev
            ELSE IF e.op = "add_bool"
            THEN Append(prev, [hint |-> IF e.hint = None THEN None
                                        ELSE Some(IF Unwrap(e.hint) THEN e.scalar ELSE 0),
                               factor |-> 1])
            ELSE Append(prev, [hint |-> e.hint, factor |-> 1])

RECURSIVE TermSum(_, _)
TermSum(t, i) ==
    IF i > Len(t) THEN 0 ELSE Unwrap(t[i].hint) * t[i].factor + TermSum(t, i + 1)

NumChain == call.op \in {"zero", "from", "add", "add_self", "add_bool", "scale"}

C11_Hint ==
    NumChain =>
        LET t == Terms(hist)
        IN /\ (ret.out.value = None) <=> (\E i \in DOMAIN t : t[i].hint = None)
           /\ (ret.out.value # None) => (Unwrap(ret.out.value) = TermSum(t, 1) % char)
           /\ (call.op = "add" /\ call.a = Num_zero /\ call.b = Num_zero)
                 => (ret.out.value = Some(0))

C11_Step == (NumChain /\ ret.out.value = None) => (ret'.out.value = None)

\* C11: the hint of a chain built from zero(), From, add, add_bool_with_coeff
\* and scale is absent exactly when some contributed number or boolean had
\* no hint; otherwise it is the sum of the contributions; zero() + zero()
\* has hint 0; and once absent the hint stays absent.
C11_NumHints == []C11_Hint /\ [][C11_Step]_vars

\* A present term added after an absent one leaves the hint absent.
C11_Witness ==
    /\ Len(hist) = 3
    /\ hist[2].op = "add" /\ hist[2].hint = None
    /\ hist[3].op = "add_bool" /\ hist[3].hint = Some(TRUE) /\ hist[3].scalar # 0
    /\ ret.out.value = None

C11_WitnessPresent ==
    /\ Len(hist) = 3 /\ cs.evaluates
    /\ hist[1].op = "from" /\ hist[2].op = "add_bool" /\ hist[3].op = "add"
    /\ hist[1].hint = Some(1) /\ hist[3].hint = Some(2)
    /\ hist[2].hint = Some(TRUE) /\ hist[2].scalar = 2
    /\ ret.out.value = Some(5 % char)

\* C12: scale(s) keeps the set of variables, multiplies every coefficient and
\* a present hint by s, keeps an absent hint absent, and a hint that was the
\* value of the linear combination at the assignment still is.
C12_Scale ==
    call.op = "scale" =>
        LET n == call.a
            s == call.cond
            r == ret.out
        IN /\ DOMAIN r.lc = DOMAIN n.lc
           /\ \A v \in DOMAIN n.lc : r.lc[v] = (n.lc[v] * s) % char
           /\ (n.value = None) <=> (r.value = None)
           /\ (n.value # None) => (Unwrap(r.value) = (Unwrap(n.value) * s) % char)
           /\ (cs.evaluates /\ n.value = Some(Eval(n.lc, cs)))
                 => (r.value = Some(Eval(r.lc, cs)))

C12_Witness ==
    /\ call.op = "scale" /\ cs.evaluates
    /\ call.cond = 2
    /\ Cardinality(DOMAIN call.a.lc) = 2
    /\ \A v \in DOMAIN call.a.lc : call.a.lc[v] # 0
    /\ call.a.value = Some(Eval(call.a.lc, cs))
    /\ call.a.value # Some(0)
    /\ ret.out.value = Some(Eval(ret.out.lc, cs))

C12_WitnessAbsent ==
    call.op = "scale" /\ call.a.value = None /\ DOMAIN call.a.lc # {} /\ ret.out.value = None

(***************************************************************************)
(* C13: frame of the arithmetic gadgets.                                   *)
(***************************************************************************)
\* The system before the last call, and what the call appended.
Before == hist[Len(hist)].cs
NewAux == Len(cs.aux) - Len(Before.aux)
NewCons == Len(cs.cons) - Len(Before.cons)

\* Everything present before the last call is still there, unchanged.
Kept ==
    /\ Len(cs.aux) >= Len(Before.aux)
    /\ SubSeq(cs.aux, 1, Len(Before.aux)) = Before.aux
    /\ cs.inputs = Before.inputs
    /\ Len(cs.cons) >= Len(Before.cons)
    /\ SubSeq(cs.cons, 1, Len(Before.cons)) = Before.cons

\* The documented constraint of each operation on variables a, b and r.
ArithShape(name, con, a, b, r) ==
    IF name = "add"
    THEN con.a = (a :> 1 @@ b :> 1) /\ con.b = (OneVar :> 1) /\ con.c = (r :> 1)
    ELSE IF name = "sub"
    THEN con.a = (a :> 1 @@ b :> (char - 1)) /\ con.b = (OneVar :> 1) /\ con.c = (r :> 1)
    ELSE IF name = "neg"
    THEN DOMAIN con.a = {} /\ DOMAIN con.b = {} /\ con.c = (a :> 1 @@ r :> 1)
    ELSE IF name = "mul"
    THEN con.a = (a :> 1) /\ con.b = (b :> 1) /\ con.c = (r :> 1)
    ELSE IF name = "square"
    THEN con.a = (a :> 1) /\ con.b = (a :> 1) /\ con.c = (r :> 1)
    ELSE con.a = (r :> 1) /\ con.b = (b :> 1) /\ con.c = (a :> 1)

\* C13: a successful add, sub, neg, mul, div or square allocates exactly one
\* auxiliary variable and registers exactly one constraint, of the
\* documented shape; variables, assignments and constraints present before
\* the call are unchanged, and so are the operands.
C13_ArithFrame ==
    (hist # <<>> /\ call.op \in ArithOps /\ ret.status = "Ok") =>
        /\ Kept
        /\ NewAux = 1
        /\ NewCons = 1
        /\ ret.out.variable = Aux(Len(cs.aux))
        /\ ArithShape(call.op, cs.cons[Len(cs.cons)],
                      call.a.variable, call.b.variable, ret.out.variable)
        /\ nums[Len(nums)] = ret.out
        /\ {call.a, call.b} \subseteq {nums[Len(nums) - 2], nums[Len(nums) - 1]}

\* The second call finds a constraint and three variables in place.
C13_Witness ==
    /\ Len(hist) = 2 /\ cs.evaluates
    /\ hist[1].op = "mul" /\ hist[1].status = "Ok"
    /\ call.op = "div" /\ ret.status = "Ok"
    /\ Len(Before.cons) = 1 /\ Len(cs.cons) = 2
    /\ cs.cons[1] = Before.cons[1]

(***************************************************************************)
(* C14: allocation.                                                        *)
(***************************************************************************)
AllocCall == hist # <<>> /\ call.op \in {"alloc", "alloc_input", "alloc_maybe_input"}

\* C14: in a system that invokes the producer, a failing producer makes
\* alloc, alloc_input and alloc_maybe_input fail with the producer's error,
\* returning no number and leaving the system as it was; a producer
\* returning v yields a number with hint v whose fresh variable is assigned
\* v, and no constraint. The variable is a public input exactly for
\* alloc_input and for alloc_maybe_input with a true flag.
C14_Alloc ==
    AllocCall =>
        LET f == call.a
            public == call.cond
        IN /\ cs.cons = Before.cons
           /\ (cs.evaluates /\ ~f.ok) =>
                 /\ ret.status = f.err
                 /\ ret.out = <<>>
                 /\ cs = Before
                 /\ Len(nums) = Cardinality({i \in 1 .. (Len(hist) - 1) : hist[i].status = "Ok"})
           /\ (cs.evaluates /\ f.ok) =>
                 /\ ret.status = "Ok"
                 /\ ret.out.value = Some(f.val)
                 /\ Value(cs, ret.out.variable) = f.val
                 /\ nums[Len(nums)] = ret.out
           /\ (ret.status = "Ok") =>
                 IF public
                 THEN /\ ret.out.variable = Input(Len(Before.inputs))
                      /\ Len(cs.inputs) = Len(Before.inputs) + 1
                      /\ SubSeq(cs.inputs, 1, Len(Before.inputs)) = Before.inputs
                      /\ cs.aux = Before.aux
                 ELSE /\ ret.out.variable = Aux(Len(Before.aux) + 1)
                      /\ Len(cs.aux) = Len(Before.aux) + 1
                      /\ SubSeq(cs.aux, 1, Len(Before.aux)) = Before.aux
                      /\ cs.inputs = Before.inputs

\* A failing producer after a successful public allocation.
C14_Witness ==
    /\ AllocCall /\ Len(hist) = 2 /\ cs.evaluates
    /\ hist[1].op = "alloc_maybe_input" /\ hist[1].status = "Ok"
    /\ Len(cs.inputs) = 2
    /\ call.op = "alloc_input" /\ ~call.a.ok
    /\ ret.status = "Unsatisfiable"

C14_WitnessMaybe ==
    /\ AllocCall /\ cs.evaluates
    /\ call.op = "alloc_maybe_input" /\ call.cond /\ call.a = ProdOk(2)
    /\ ret.status = "Ok" /\ ret.out.variable[1] = "Input"
    /\ Value(cs, ret.out.variable) = 2

(***************************************************************************)
(* C15: constraints are never removed, failed calls are not rolled back.   *)
(***************************************************************************)
\* The constraints of the earlier system c are the first ones of cs.
StillRegistered(c) ==
    /\ Len(c.cons) <= Len(cs.cons)
    /\ SubSeq(cs.cons, 1, Len(c.cons)) = c.cons

\* conditionally_reverse in an evaluating system with a true condition,
\* b's hint present and a's hint absent.
HalfReverse ==
    /\ hist # <<>> /\ call.op = "conditionally_reverse" /\ Before.evaluates
    /\ BooleanValue(call.cond) = Some(TRUE)
    /\ call.a.value = None /\ call.b.value # None

\* C15: after any sequence of calls, successful or failed, the constraints
\* found by each call are still registered, in place and unmodified. A call
\* that fails part-way keeps what it registered: conditionally_reverse with
\* a true condition, b's hint present and a's absent fails with
\* AssignmentMissing, leaving its first output variable and its first
\* constraint in the system.
C15_ConstraintsGrow ==
    /\ \A k \in DOMAIN hist : StillRegistered(hist[k].cs)
    /\ HalfReverse =>
          /\ ret.status = "AssignmentMissing"
          /\ Kept
          /\ NewAux = 1
          /\ cs.aux[Len(cs.aux)] = Hint(call.b)
          /\ NewCons = 1
          /\ cs.cons[Len(cs.cons)].name = Name("first conditional reversal", 0)
          /\ Aux(Len(cs.aux)) \in DOMAIN cs.cons[Len(cs.cons)].c

\* The half-built reversal as the second call, after a failed call and with
\* earlier constraints in place.
C15_Witness ==
    /\ HalfReverse /\ Len(hist) = 2
    /\ ret.status = "AssignmentMissing"
    /\ Len(cs.cons) = Len(Before.cons) + 1
    /\ Len(Before.cons) >= 1

C15_WitnessFailed ==
    /\ Len(hist) = 2
    /\ hist[1].status = "AssignmentMissing" /\ hist[1].op = "is_equal"
    /\ hist[2].status = "Ok"
    /\ Len(hist[2].cs.cons) = 1 /\ Len(cs.cons) > 1

(***************************************************************************)
(* C16: division by a zero hint.                                           *)
(***************************************************************************)
\* C16: div never ends in DivisionByZero; with both hints present and the
\* divisor's hint 0, whatever the dividend, the producer's assertion on the
\* inverse fails: the call panics, returns nothing, and neither the result
\* variable nor the division constraint has been added.
C16_DivByZero ==
    call.op = "div" =>
        /\ ret.status # "DivisionByZero"
        /\ (call.a.value # None /\ call.b.value = Some(0)) =>
              /\ ret.status = "Panic"
              /\ ret.out = <<>>
              /\ cs.cons = <<>>
              /\ Len(cs.aux) = Len(nums)
              /\ \A i \in DOMAIN nums : cs.aux[i] = Hint(nums[i])

C16_Witness ==
    /\ call.op = "div" /\ call.a.variable # call.b.variable
    /\ Hint(call.a) # 0 /\ Hint(call.b) = 0
    /\ ret.status = "Panic"

C16_WitnessZeroByZero ==
    call.op = "div" /\ Hint(call.a) = 0 /\ Hint(call.b) = 0 /\ ret.status = "Panic"

(***************************************************************************)
(* C17: the aliased representation value + characteristic.                 *)
(***************************************************************************)
BitVarSet == {BitVars[i] : i \in 1 .. Len(ret.out)}
\* The AND flags of the strict decomposition: neither the number nor a bit.
FlagVars == (1 .. Len(cs.aux)) \ (BitVarSet \cup {Idx(call.a)})

\* The integers the bit variables encode in the assignments that satisfy
\* the system, the variables in free ranging over the field.
Encodable(free) == {Weighted(Digits(w), 1) : w \in Solutions(cs, free)}

\* The system with the bit variables assigned the bits of the integer n.
WithBits(n) ==
    [cs EXCEPT !.aux = [k \in DOMAIN cs.aux |->
        IF k \in BitVarSet
        THEN BitOf(n, (CHOOSE i \in 1 .. Len(ret.out) : BitVars[i] = k) - 1)
        ELSE cs.aux[k]]]

Decomposed(name) == call.op = name /\ ret.status = "Ok" /\ hist = <<>>
Fits(n) == n < Pow2(Len(ret.out))

\* C17 as stated: whenever the value has fewer significant bits than the
\* characteristic, the bits of value + characteristic satisfy the
\* constraints of to_bits_le.
C17_AsStated ==
    (Decomposed("to_bits_le") /\ BitLen(Hint(call.a)) < BitLen(char))
        => (Hint(call.a) + char) \in Encodable(BitVarSet)

\* C17, amended: the bits of value + characteristic satisfy the constraints
\* of to_bits_le exactly when that integer fits in the returned bits; the
\* value and, when it fits, value + characteristic are the only integers the
\* bits can encode. The constraints of to_bits_le_strict reject the aliased
\* bits under every assignment of the AND flags.
C17_Aliased ==
    LET x == Hint(call.a)
    IN /\ Decomposed("to_bits_le") =>
             /\ Encodable(BitVarSet) = {x} \cup (IF Fits(x + char) THEN {x + char} ELSE {})
             /\ Fits(x + char) => is_satisfied(WithBits(x + char))
       /\ (Decomposed("to_bits_le_strict") /\ Fits(x + char)) =>
             /\ ~is_satisfied(WithBits(x + char))
             /\ Solutions(WithBits(x + char), FlagVars) = {}
             /\ Encodable(BitVarSet \cup FlagVars) = {x}

C17_Witness ==
    /\ Decomposed("to_bits_le") /\ char = 11 /\ Hint(call.a) = 4
    /\ is_satisfied(WithBits(15))
    /\ \A i \in 1 .. Len(ret.out) : WithBits(15).aux[BitVars[i]] = 1

C17_WitnessStrict ==
    /\ Decomposed("to_bits_le_strict") /\ char = 11 /\ Hint(call.a) = 4
    /\ ~is_satisfied(WithBits(15))

\* A value of fewer bits whose alias does not fit the returned bits.
C17_WitnessExcluded ==
    /\ Decomposed("to_bits_le") /\ char = 11 /\ Hint(call.a) = 5
    /\ Encodable(BitVarSet) = {5}

(***************************************************************************)
(* C18, C19: the forward pass of to_bits_le_strict.                        *)
(***************************************************************************)
StrictCall == hist # <<>> /\ call.op = "to_bits_le_strict"

\* The bits of characteristic - 1 and of the hint, most significant first.
Bound == Rev(to_le_bits(FNeg(1 % char)))
HintBits == IF call.a.value = None THEN None ELSE Some(Rev(to_le_bits(Hint(call.a))))

\* The loop state after the first k positions of the last call.
Pass(k) == strict_loop(StrictStart(Before), SubSeq(Bound, 1, k), HintBits, 1)

\* Position k lies before the first 1 of the bound.
Leading(k) == \A j \in 1 .. k : ~Bound[j]
\* The positions among the first k that get a bit.
Visited(k) == {j \in 1 .. k : ~Leading(j)}

\* C18: for each sample prime and each canonical value or absent hint, the
\* pass of to_bits_le_strict trips no internal check: the hint has bit 0 at
\* every skipped leading position, no empty run is folded, last_run is set
\* at every bound-bit-0 position, the run is empty after the last position,
\* and each position from the first 1 on is visited once.
C18_NoInternalFault ==
    StrictCall =>
        /\ ret.status # "Panic"
        /\ (ret.status = "Ok") <=> (call.a.value # None \/ ~Before.evaluates)
        /\ (ret.status # "Ok") => (ret.status = "AssignmentMissing")
        /\ \A k \in 1 .. ReprLen :
              LET prev == Pass(k - 1)
                  cur == Pass(k)
              IN /\ cur.status # "Panic"
                 /\ (prev.status = "Ok" /\ Leading(k) /\ HintBits # None)
                       => ~Unwrap(HintBits)[k]
                 /\ (prev.status = "Ok" /\ ~Leading(k) /\ ~Bound[k])
                       => /\ strict_fold(prev).status = "Ok"
                          /\ strict_fold(prev).last_run # None
                          /\ (prev.last_run = None => prev.current_run # <<>>)
                 /\ (cur.status = "Ok")
                       => /\ cur.i = Cardinality(Visited(k))
                          /\ Len(cur.result) = Cardinality(Visited(k))
        /\ (ret.status = "Ok") =>
              /\ Pass(ReprLen).status = "Ok"
              /\ Pass(ReprLen).current_run = <<>>
              /\ Cardinality(Visited(ReprLen)) = NUM_BITS
              /\ Len(ret.out) = NUM_BITS

\* A bound with two runs of ones (10110), the largest value.
C18_Witness ==
    /\ StrictCall /\ char = 23 /\ cs.evaluates
    /\ call.a.value = Some(22)
    /\ ret.status = "Ok"
    /\ Pass(ReprLen).last_run # None /\ Pass(ReprLen).current_run = <<>>

C18_WitnessAbsent ==
    /\ StrictCall /\ char = 31 /\ ~cs.evaluates
    /\ call.a.value = None /\ ret.status = "Ok" /\ Len(ret.out) = 5

\* Positions of the bound that get a bit, and the bit allocated at each.
Offset == ReprLen - NUM_BITS
Positions == (Offset + 1) .. ReprLen
BitAt == [k \in Positions |-> Pass(ReprLen).result[k - Offset]]
\* A run is folded at position k: a bound bit 0 right after bound bits 1.
Folds == {k \in Positions : ~Bound[k] /\ Pass(k - 1).current_run # <<>>}
\* The flag last_run in force when the bit of a bound-bit-0 position is
\* allocated.
FlagAt == [k \in {j \in Positions : ~Bound[j]} |-> Unwrap(Pass(k).last_run)]
\* The bound-bit-1 positions of the run that ends right before position k.
RunBefore(k) == {j \in Positions : j < k /\ \A m \in j .. (k - 1) : Bound[m]}

AllTrue(values) == IF None \in values THEN None ELSE Some(values = {Some(TRUE)})

\* w assigns the variables bit[j] before position k the bits of the bound.
MatchesBound(w, bit, k) ==
    \A j \in Positions : j < k => w[bit[j]] = Bit01(Bound[j])
SamePrefix(w, u, bit, k) ==
    \A j \in Positions : j < k => w[bit[j]] = u[bit[j]]

StrictDone == StrictCall /\ ret.status = "Ok" /\ Before.evaluates

\* The constraints the pass laid down, over the variables as they stand
\* after it.
PassConstraints ==
    [Pass(ReprLen).cs EXCEPT
        !.cons = SubSeq(@, Len(Before.cons) + 1, Len(Pass(ReprLen).cs.cons))]
\* All assignments of the variables the pass allocated that satisfy the
\* constraints the pass laid down (the final unpacking constraint, which
\* ties the bits to the number, only narrows this set).
PassSolutions ==
    Solutions(PassConstraints, (Len(Before.aux) + 1) .. Len(PassConstraints.aux))

\* C19: each fold makes last_run the AND of the bits of the run just
\* finished and of the previous last_run, if there is one, and empties the
\* run. In every satisfying assignment a flag is 1 exactly when all bits
\* allocated before its position equal the bound's bits; the bit of a
\* bound-bit-0 position is 0 when its flag is 1 and may be 0 or 1 when its
\* flag is 0; the bit of a bound-bit-1 position may always be 0 or 1.
C19_RunFolding ==
    StrictDone =>
        \A sols \in {PassSolutions} :
        \A bit \in {[k \in Positions |-> Idx(BitAt[k])]} :
        \A flag \in {[k \in DOMAIN FlagAt |-> Idx(FlagAt[k])]} :
           /\ \A k \in Folds :
                 \A prev \in {Pass(k - 1)} :
                 \A run \in {{BitAt[j] : j \in RunBefore(k)}} :
                 \A folded \in {run \cup (IF prev.last_run = None THEN {}
                                          ELSE {Unwrap(prev.last_run)})} :
                 \A ands \in {{Idx(b) : b \in folded}} :
                    /\ {prev.current_run[i] : i \in DOMAIN prev.current_run} = run
                    /\ strict_fold(prev).current_run = <<>>
                    /\ Pass(k).current_run = <<>>
                    /\ FlagAt[k].value = AllTrue({b.value : b \in folded})
                    /\ \A w \in sols :
                          (w[flag[k]] = 1) <=> (\A v \in ands : w[v] = 1)
           /\ \A k \in DOMAIN flag : \A w \in sols :
                 /\ w[flag[k]] \in {0, 1}
                 /\ (w[flag[k]] = 1) <=> MatchesBound(w, bit, k)
                 /\ (w[flag[k]] = 1) => (w[bit[k]] = 0)
                 /\ (w[flag[k]] = 0) =>
                       \E u \in sols : SamePrefix(w, u, bit, k) /\ u[bit[k]] = 1 - w[bit[k]]
           /\ \A k \in Positions : \A w \in sols :
                 /\ w[bit[k]] \in {0, 1}
                 /\ Bound[k] =>
                       \E u \in sols : SamePrefix(w, u, bit, k) /\ u[bit[k]] = 1 - w[bit[k]]
           /\ cs.aux \in sols

\* Two folds (bound 10110, value 10100): the first flag is 1, the second
\* takes it in and is 0 because of the bit that differs from the bound.
C19_Witness ==
    /\ StrictDone /\ char = 23 /\ Len(hist) = 1
    /\ Hint(call.a) = 20
    /\ Cardinality(Folds) = 2
    /\ {FlagAt[k].value : k \in Folds} = {Some(TRUE), Some(FALSE)}
    /\ Cardinality(PassSolutions) > 1

(***************************************************************************)
(* C20: absent hints in is_zero and is_equal.                              *)
(***************************************************************************)
StructureOnly == hist # <<>> /\ ~Before.evaluates

\* C20: is_zero on a number without hint returns AssignmentMissing and
\* leaves the system exactly as it found it, in an evaluating and in a
\* structure-only system. In a structure-only system is_equal always fails
\* with AssignmentMissing, with the variable and the constraint of the
\* subtraction registered, while add, sub, neg, mul, div and square succeed
\* with an absent result hint.
C20_AbsentHints ==
    /\ (hist # <<>> /\ call.op = "is_zero" /\ call.a.value = None) =>
          /\ ret.status = "AssignmentMissing"
          /\ cs = Before
    /\ (StructureOnly /\ call.op = "is_equal") =>
          /\ ret.status = "AssignmentMissing"
          /\ Kept
          /\ NewAux = 1
          /\ NewCons = 1
          /\ cs.cons[Len(cs.cons)].name = Name("subtraction constraint", 0)
          /\ ArithShape("sub", cs.cons[Len(cs.cons)], call.a.variable,
                        call.b.variable, Aux(Len(cs.aux)))
          /\ bools = <<>>
    /\ (StructureOnly /\ call.op \in ArithOps) =>
          /\ ret.status = "Ok"
          /\ ret.out.value = None
          /\ NewAux = 1
          /\ NewCons = 1

\* is_equal in a structure-only system, after a successful sub there.
C20_Witness ==
    /\ StructureOnly /\ Len(hist) = 2
    /\ hist[1].op = "sub" /\ hist[1].status = "Ok"
    /\ call.op = "is_equal" /\ ret.status = "AssignmentMissing"
    /\ Len(cs.aux) = Len(Before.aux) + 1

\* is_zero on a number without hint in an evaluating system.
C20_WitnessEvaluating ==
    /\ hist # <<>> /\ Before.evaluates
    /\ call.op = "is_zero" /\ call.a.value = None
    /\ ret.status = "AssignmentMissing" /\ Len(cs.aux) >= 2

\* div in a structure-only system: the producer and its assertion never run.
C20_WitnessDiv ==
    /\ StructureOnly /\ call.op = "div" /\ ret.status = "Ok"

====
